---- MODULE Spec2Model ----
(***************************************************************************)
(* State-machine model of the Rijksmuseum harvest / normalize / embed      *)
(* pipeline (scripts/harvest-vocabulary-db.py, generate-embeddings-v2.py). *)
(*                                                                         *)
(* The SQLite store is modelled twice: `db` is what the open connection    *)
(* sees (including the open, uncommitted transaction), `disk` is what is   *)
(* durable.  conn.commit() copies db to disk; a process kill throws db     *)
(* away.  DML opens a transaction implicitly, DDL executed while no        *)
(* transaction is open is durable at once (sqlite3 legacy isolation).      *)
(***************************************************************************)
EXTENDS Integers, Sequences, FiniteSets, Bags, TLC

VARIABLES
    db,         \* store as seen through the open connection
    disk,       \* committed (durable) store
    ckpt,       \* contents of CHECKPOINT_PATH
    p1pc,       \* position of run_phase1
    url,        \* run_phase1: page the current url asks for (0 = None)
    page,       \* run_phase1: page counter
    attempt,    \* fetch_oai_page: attempt index of the running fetch
    root,       \* run_phase1: page held in `root` (0 = none fetched)
    pc,         \* position of main (phases 4, 2b, 3) in the store runs
    in_transaction, \* conn.in_transaction: DML ran since the last commit
    start_phase,    \* args.start_phase of the running main
    pending,    \* run_phase4: the pending list
    batch_start,    \* run_phase4: batch_start
    futures,    \* run_phase4: state of each future of the current batch
    int_mappings,   \* run_phase4: int_mappings
    observed,   \* history: artworks some fetch answered with a payload or 404
    failed,     \* history: artworks whose fetch in the latest Phase 4 ended
                \* in a non-404 HTTP error or a transport error
    orphan_msg, \* the latest normalization printed the orphan-drop note
    renameCrash,    \* history: the kill between the two renames, if any
    threads,    \* args.threads
    edb,        \* embeddings store as seen through the open connection
    edisk,      \* committed (durable) embeddings store
    epc,        \* position of generate-embeddings-v2 main
    emb_resume,     \* args.resume
    artworks,   \* embed_and_write: the artworks list
    existing_ids,   \* embed_and_write: existing_ids
    dangling,   \* embed_and_write: dangling
    emb_start,  \* embed_and_write: batch_start of the encode loop
    batch_size, \* args.batch_size
    batch_rows, \* embed_and_write: batch_rows_regular / batch_rows_vec
    final_flush,    \* the running _flush_batch is the one after the loop
    inserted,   \* embed_and_write: inserted
    flushCrash, \* history: a kill inside _flush_batch, if any
    p2pc,       \* position of run_phase2
    p2_futures, \* run_phase2: state of each future
    p2_batch,   \* run_phase2: batch
    p2_resolved,    \* run_phase2: resolved
    p2_failed,  \* run_phase2: failed
    mpc,        \* position of main
    phase_arg,  \* args.phase
    skip_dump,  \* args.skip_dump
    executed,   \* history: the phases 0 to 2 main has called, in order
    exit_status,    \* exit status of the process, "running" before it ends
    places,     \* geocode_places.py: the vocabulary table of --db
    gphase,     \* geocode_places.py: the phase function about to return
    updates,    \* the dict that function passed to update_coords[_and_ids]
    updated,    \* the count it returned
    search_results, \* phase_3_reconciliation: search_results
    classes,    \* phase_3_reconciliation: accepted / review / rejected
    dry_run,    \* args.dry_run of the run whose phase is executing
    timespan,   \* resolve_artwork: produced_by.timespan of the payload
    date_earliest,  \* resolve_artwork: date_earliest
    date_latest,    \* resolve_artwork: date_latest
    dpc,        \* resolve_artwork: before or after the date extraction
    rconn,      \* statement level: the rows of each artwork the connection sees
    rdisk,      \* statement level: the rows of each artwork that are committed
    rpc,        \* statement level: position in run_phase1 / run_phase4
    rpage,      \* run_phase1: page
    rart,       \* the artwork whose statements are being executed
    rcur,       \* the statements of that artwork still to execute
    rpending,   \* run_phase4: the artworks of pending not yet handled
    rhandled,   \* run_phase4: futures of the current batch handled so far
    backoff_left,   \* search_wikidata_entities: backoff_until - loop.time()
    get_pc,     \* _get_with_retry of each worker: its position
    attempt_no, \* _get_with_retry of each worker: attempt
    sleep_left, \* each worker: what is left of its asyncio.sleep
    search_name,    \* the place name searched for, as its characters
    search_data,    \* what Wikidata answers to each search request
    searched,       \* which of the two search functions have run
    results_async,  \* results[vocab_id] of search_wikidata_entities
    results_sync,   \* results[vocab_id] of _search_wikidata_sync
    equivalents,    \* parse_nt_file: the equivalent URIs in file order
    external_id     \* parse_nt_file: the external_id it returns

p1vars == <<ckpt, p1pc, url, page, attempt, root>>
mainvars == <<pc, in_transaction, start_phase, orphan_msg, renameCrash>>
p4vars == <<pending, batch_start, futures, int_mappings, observed, failed>>
embvars == <<edb, edisk, epc, emb_resume, artworks, existing_ids, dangling,
             emb_start, batch_size, batch_rows, final_flush, inserted,
             flushCrash>>
p2vars == <<p2pc, p2_futures, p2_batch, p2_resolved, p2_failed>>
mnvars == <<mpc, phase_arg, skip_dump, executed, exit_status>>
geovars == <<places, gphase, updates, updated, search_results, classes,
            dry_run>>
datevars == <<timespan, date_earliest, date_latest, dpc>>
rowvars == <<rconn, rdisk, rpc, rpage, rart, rcur, rpending, rhandled>>
bkvars == <<backoff_left, get_pc, attempt_no, sleep_left>>
searchvars == <<search_name, search_data, searched, results_async,
               results_sync>>
ntvars == <<equivalents, external_id>>
extravars == <<rowvars, bkvars, searchvars, ntvars>>
latervars == <<p2vars, mnvars, geovars, datevars, extravars>>
vars == <<db, disk, p1vars, mainvars, p4vars, threads, embvars, latervars>>

\* the embeddings store before the first run: no file
NoRows == [i \in {} |-> 0]
NoEmbeddings == [artwork_embeddings |-> NoRows, vec_artworks |-> NoRows,
                 metadata |-> NoRows]

\* the embedding pipeline at rest
EmbInit ==
    /\ edb = NoEmbeddings
    /\ edisk = NoEmbeddings
    /\ epc = "idle"
    /\ emb_resume = FALSE
    /\ artworks = <<>>
    /\ existing_ids = {}
    /\ dangling = {}
    /\ emb_start = 0
    /\ batch_size = 1
    /\ batch_rows = <<>>
    /\ final_flush = FALSE
    /\ inserted = 0
    /\ flushCrash = FALSE

\* run_phase2 at rest
P2Rest ==
    /\ p2pc = "idle"
    /\ p2_futures = NoRows
    /\ p2_batch = <<>>
    /\ p2_resolved = 0
    /\ p2_failed = 0

\* main before it is invoked
MnRest ==
    /\ mpc = "idle"
    /\ phase_arg = 0
    /\ skip_dump = FALSE
    /\ executed = <<>>
    /\ exit_status = "running"

\* SQL NULL (None) and a value in a REAL column
Null == <<>>
Real(x) == <<x>>

\* a row of vocabulary as geocode_places.py reads it; external_id is the
\* authority its URI names and the identifier in it, <<"", "">> for NULL
Place(authority, ref, name, coords) ==
    [type |-> "place", external_id |-> <<authority, ref>>, name |-> name,
     used |-> TRUE, lat |-> coords[1], lon |-> coords[2]]

Ungeocoded == <<Null, Null>>

\* the places of a harvested store, those in G with coordinates
Places(G) ==
    LET at(v) == IF v \in G THEN <<Real(1), Real(1)>> ELSE Ungeocoded IN
    [v \in {"g1", "w1", "t1", "s1", "n1"} |->
        CASE v = "g1" -> Place("geonames", "1", "Gouda", at(v))
          [] v = "w1" -> Place("wikidata", "Q9", "Weesp", at(v))
          [] v = "t1" -> Place("tgn", "7", "Tiel", at(v))
          [] v = "s1" -> Place("rijks", "w1", "Weesp", at(v))
          [] OTHER -> Place("", "", "Delft", at(v))]

\* geocode_places.py before its first run
GeoRest ==
    /\ places = Places({})
    /\ gphase = "none"
    /\ updates = NoRows
    /\ updated = 0
    /\ search_results = NoRows
    /\ classes = NoRows
    /\ dry_run = FALSE

\* a value of the timespan: a string, as the sequence of its characters, or
\* something that is no string; "" stands for a key that is missing too
Str(chars) == [isstr |-> TRUE, chars |-> chars]
NotAString == [isstr |-> FALSE, chars |-> <<>>]

\* resolve_artwork on a payload without dates
DatesRest ==
    /\ timespan = [begin_of_the_begin |-> Str(<<>>),
                   end_of_the_end |-> Str(<<>>)]
    /\ date_earliest = Null
    /\ date_latest = Null
    /\ dpc = "row"

\* statement level: an empty store, no phase running
RowRest ==
    /\ rconn = NoRows
    /\ rdisk = NoRows
    /\ rpc = "idle"
    /\ rpage = 0
    /\ rart = 0
    /\ rcur = <<>>
    /\ rpending = <<>>
    /\ rhandled = 0

\* no search is running
BackoffRest ==
    /\ backoff_left = 0
    /\ get_pc = <<>>
    /\ attempt_no = <<>>
    /\ sleep_left = <<>>

\* nothing searched, no file parsed
SearchRest ==
    /\ search_name = <<>>
    /\ search_data = <<>>
    /\ searched = {}
    /\ results_async = <<>>
    /\ results_sync = <<>>

NtRest ==
    /\ equivalents = <<>>
    /\ external_id = <<>>

ExtraRest == RowRest /\ BackoffRest /\ SearchRest /\ NtRest

LaterInit == P2Rest /\ MnRest /\ GeoRest /\ DatesRest /\ ExtraRest

----------------------------------------------------------------------------
(* Bounds and constants *)

NumPages == 3        \* pages the OAI-PMH endpoint delivers
BATCH_SIZE == 2      \* commit every N pages (500 in the source, scaled)

NULL == 0            \* SQL NULL in an integer column (rowids start at 1)

----------------------------------------------------------------------------
(* The OAI-PMH feed: the records extract_records returns for each page.    *)
(* Page 2 repeats object a1 with other values; a1 lists one reference      *)
(* twice.                                                                  *)

Rec(o, t, r, u, m) ==
    [object_number |-> o, title |-> t, rights_uri |-> r,
     linked_art_uri |-> u, mappings |-> m]

extract_records(k) ==
    CASE k = 1 -> << Rec("a1", "t1", "r1", "u1",
                         << <<"v1", "subject">>, <<"v2", "creator">>,
                            <<"v1", "subject">> >>) >>
      [] k = 2 -> << Rec("a2", "t2", "r2", "u2", << <<"v1", "subject">> >>),
                     Rec("a1", "t1x", "r2", "u1", << <<"v2", "subject">> >>) >>
      [] OTHER -> << Rec("a3", "t3", "", "", << >>) >>

\* resumptionToken element of page k: the token of the next page, 0 when
\* the list is complete
resumptionToken(k) == IF k < NumPages THEN k + 1 ELSE 0

----------------------------------------------------------------------------
(* SQL helpers *)

Max(S) == CHOOSE x \in S : \A y \in S : y <= x

\* rowid SQLite gives to the next row of a rowid table
NextRowid(tbl) ==
    IF DOMAIN tbl = {} THEN 1
    ELSE Max({tbl[o].rowid : o \in DOMAIN tbl}) + 1

\* INSERT INTO artworks (object_number, title, creator_label, rights_uri,
\* linked_art_uri): the other columns take their defaults
InsertArtworkAlways(tbl, rec) ==
    (rec.object_number :>
        [rowid |-> NextRowid(tbl), title |-> rec.title,
         rights_uri |-> rec.rights_uri,
         linked_art_uri |-> rec.linked_art_uri,
         tier2 |-> "NULL", tier2_done |-> 0,
         art_id |-> NULL, rights_id |-> NULL,
         via |-> "none"]) @@ tbl

\* INSERT OR REPLACE in place of INSERT OR IGNORE
InsertOrReplaceArtwork(tbl, rec) ==
    InsertArtworkAlways([o \in DOMAIN tbl \ {rec.object_number} |-> tbl[o]],
                        rec)

\* INSERT OR IGNORE INTO artworks: the primary key is object_number
InsertOrIgnoreArtwork(tbl, rec) ==
    IF rec.object_number \in DOMAIN tbl THEN tbl
    ELSE InsertArtworkAlways(tbl, rec)

\* INSERT OR IGNORE INTO mappings: the primary key is the full triple
InsertMappingAlways(rows, t) == rows (+) SetToBag({t})

InsertOrIgnoreMapping(rows, t) ==
    IF BagIn(t, rows) THEN rows ELSE InsertMappingAlways(rows, t)

RECURSIVE InsertMappings(_, _, _, _)
InsertMappings(rows, o, ms, i) ==
    IF i > Len(ms) THEN rows
    ELSE InsertMappings(InsertOrIgnoreMapping(rows, <<o, ms[i][1], ms[i][2]>>),
                        o, ms, i + 1)

\* the `for rec in records` loop of run_phase1 on store d
RECURSIVE InsertRecords(_, _, _)
InsertRecords(d, recs, i) ==
    IF i > Len(recs) THEN d
    ELSE InsertRecords(
            [d EXCEPT !.artworks = InsertOrIgnoreArtwork(@, recs[i]),
                      !.mappings.rows =
                          InsertMappings(@, recs[i].object_number,
                                         recs[i].mappings, 1)],
            recs, i + 1)

\* a fresh store after create_or_open_db: SCHEMA_SQL tables, all empty.
\* A mappings table is its shape (text or int columns) and its rows; a
\* lookup table maps each name to its INTEGER PRIMARY KEY.  The `via` column
\* of artworks is bookkeeping of the model: the branch of run_phase4 that
\* set tier2_done.
NoTable == [shape |-> "none", rows |-> EmptyBag]
NoLookup == [shape |-> "none", ids |-> <<>>]
EmptyStore ==
    [artworks |-> <<>>,
     artworks_cols |-> {"rights_uri"},
     vocabulary |-> <<>>,
     vocabulary_cols |-> {},
     mappings |-> [shape |-> "text", rows |-> EmptyBag],
     mappings_int |-> NoTable,
     mappings_old |-> NoTable,
     field_lookup |-> NoLookup,
     rights_lookup |-> NoLookup]

\* what an uninterrupted harvest of pages k..NumPages adds to store d
RECURSIVE HarvestFrom(_, _)
HarvestFrom(d, k) ==
    IF k > NumPages THEN d
    ELSE HarvestFrom(InsertRecords(d, extract_records(k), 1), k + 1)

Uninterrupted == HarvestFrom(EmptyStore, 1)

----------------------------------------------------------------------------
(* Checkpoint file *)

NoFile == [state |-> "absent", resumption_token |-> 0, page |-> 0]
Truncated == [state |-> "empty", resumption_token |-> 0, page |-> 0]
Checkpoint(t, p) == [state |-> "json", resumption_token |-> t, page |-> p]

\* load_checkpoint: None (here NoFile) when the file is missing or json.load
\* fails
load_checkpoint == IF ckpt.state = "json" THEN ckpt ELSE NoFile

----------------------------------------------------------------------------
(* Phase 1 *)

\* main -> run_phase1(conn, resume): lines 721-736
P1Start ==
    /\ UNCHANGED <<mainvars, p4vars, threads, embvars, latervars>>
    /\ p1pc \in {"idle", "done"}
    /\ \E resume \in BOOLEAN :
         LET checkpoint == load_checkpoint IN
         IF resume /\ checkpoint.state = "json"
         THEN /\ url' = checkpoint.resumption_token
              /\ page' = checkpoint.page
         ELSE /\ url' = 1
              /\ page' = 0
    /\ p1pc' = "loop"
    /\ attempt' = 0
    /\ root' = 0
    /\ UNCHANGED <<db, disk, ckpt>>

\* while url: page += 1 (the loop test, also reached after each page)
P1Loop ==
    /\ UNCHANGED <<mainvars, p4vars, threads, embvars, latervars>>
    /\ p1pc = "loop"
    /\ IF url # 0
       THEN /\ page' = page + 1
            /\ p1pc' = "fetch"
       ELSE /\ page' = page
            /\ p1pc' = "final"
    /\ UNCHANGED <<db, disk, ckpt, url, attempt, root>>

\* fetch_oai_page: an attempt succeeds, root = the parsed page
P1FetchOk ==
    /\ UNCHANGED <<mainvars, p4vars, threads, embvars, latervars>>
    /\ p1pc = "fetch"
    /\ root' = url
    /\ attempt' = 0
    /\ p1pc' = "insert"
    /\ UNCHANGED <<db, disk, ckpt, url, page>>

\* fetch_oai_page: an attempt fails; attempts 0 and 1 sleep and retry, the
\* failure of attempt 2 is re-raised and run_phase1 breaks out of the loop
P1FetchFail ==
    /\ UNCHANGED <<mainvars, p4vars, threads, embvars, latervars>>
    /\ p1pc = "fetch"
    /\ IF attempt < 2
       THEN /\ attempt' = attempt + 1
            /\ p1pc' = "fetch"
       ELSE /\ attempt' = 0
            /\ p1pc' = "final"
    /\ UNCHANGED <<db, disk, ckpt, url, page, root>>

\* records = extract_records(root); the INSERT OR IGNORE loop
P1Insert ==
    /\ UNCHANGED <<mainvars, p4vars, threads, embvars, latervars>>
    /\ p1pc = "insert"
    /\ db' = InsertRecords(db, extract_records(root), 1)
    /\ p1pc' = IF resumptionToken(root) # 0 THEN "save_open" ELSE "batch"
    /\ url' = resumptionToken(root)
    /\ UNCHANGED <<disk, ckpt, page, attempt, root>>

\* save_checkpoint: open(CHECKPOINT_PATH, "w") truncates the file
P1SaveOpen ==
    /\ UNCHANGED <<mainvars, p4vars, threads, embvars, latervars>>
    /\ p1pc = "save_open"
    /\ ckpt' = Truncated
    /\ p1pc' = "save_dump"
    /\ UNCHANGED <<db, disk, url, page, attempt, root>>

\* save_checkpoint: json.dump and close
P1SaveDump ==
    /\ UNCHANGED <<mainvars, p4vars, threads, embvars, latervars>>
    /\ p1pc = "save_dump"
    /\ ckpt' = Checkpoint(url, page)
    /\ p1pc' = "batch"
    /\ UNCHANGED <<db, disk, url, page, attempt, root>>

\* if page % BATCH_SIZE == 0: conn.commit()
P1Batch ==
    /\ UNCHANGED <<mainvars, p4vars, threads, embvars, latervars>>
    /\ p1pc = "batch"
    /\ disk' = IF page % BATCH_SIZE = 0 THEN db ELSE disk
    /\ p1pc' = "loop"
    /\ UNCHANGED <<db, ckpt, url, page, attempt, root>>

\* after the loop: conn.commit()
P1FinalCommit ==
    /\ UNCHANGED <<mainvars, p4vars, threads, embvars, latervars>>
    /\ p1pc = "final"
    /\ disk' = db
    /\ p1pc' = "unlink"
    /\ UNCHANGED <<db, ckpt, url, page, attempt, root>>

\* the clean-up without the test on url
P1UnlinkAlways ==
    /\ UNCHANGED <<mainvars, p4vars, threads, embvars, latervars>>
    /\ p1pc = "unlink"
    /\ ckpt' = NoFile
    /\ p1pc' = "done"
    /\ UNCHANGED <<db, disk, url, page, attempt, root>>

\* if CHECKPOINT_PATH.exists() and url is None: unlink
P1Unlink ==
    /\ UNCHANGED <<mainvars, p4vars, threads, embvars, latervars>>
    /\ p1pc = "unlink"
    /\ ckpt' = IF ckpt.state # "absent" /\ url = 0 THEN NoFile ELSE ckpt
    /\ p1pc' = "done"
    /\ UNCHANGED <<db, disk, url, page, attempt, root>>

\* the process is killed: the open transaction is lost, files stay
P1Crash ==
    /\ UNCHANGED <<mainvars, p4vars, threads, embvars, latervars>>
    /\ p1pc \notin {"idle", "done"}
    /\ db' = disk
    /\ p1pc' = "idle"
    /\ UNCHANGED <<disk, ckpt, url, page, attempt, root>>

P1Init ==
    /\ db = EmptyStore
    /\ disk = EmptyStore
    /\ ckpt = NoFile
    /\ p1pc = "idle"
    /\ url = 0
    /\ page = 0
    /\ attempt = 0
    /\ root = 0
    /\ pc = "idle"
    /\ in_transaction = FALSE
    /\ start_phase = 1
    /\ orphan_msg = FALSE
    /\ renameCrash = FALSE
    /\ pending = <<>>
    /\ batch_start = 0
    /\ futures = <<>>
    /\ int_mappings = FALSE
    /\ observed = {}
    /\ failed = {}
    /\ threads = 1
    /\ EmbInit
    /\ LaterInit

P1Next ==
    \/ P1Start
    \/ P1Loop
    \/ P1FetchOk
    \/ P1FetchFail
    \/ P1Insert
    \/ P1SaveOpen
    \/ P1SaveDump
    \/ P1Batch
    \/ P1FinalCommit
    \/ P1Unlink
    \/ P1Crash


SpecP1 == P1Init /\ [][P1Next]_vars

----------------------------------------------------------------------------
(* The store the later phases start from: the harvested feed plus the      *)
(* vocabulary Phases 0 and 2 supplied.  Vocabulary terms the harvest       *)
(* references but no phase could supply stay unmatched.                    *)

commit_batch_size == 2   \* run_phase4 (500 in the source, scaled)
MaxThreads == 2          \* largest --threads value tried

ObjOrder == <<"a1", "a2", "a3">>
VocabOrder == <<"v1", "v2">>
InitialVocabularies == {{"v1"}, {"v1", "v2"}}

\* VOCAB_INSERT_SQL: INSERT OR IGNORE INTO vocabulary; the surrogate column
\* is not in the column list and stays NULL
RECURSIVE InsertVocabulary(_, _, _)
InsertVocabulary(tbl, ids, i) ==
    IF i > Len(VocabOrder) THEN tbl
    ELSE InsertVocabulary(
            IF VocabOrder[i] \in ids /\ VocabOrder[i] \notin DOMAIN tbl
            THEN (VocabOrder[i] :> [rowid |-> NextRowid(tbl),
                                    vocab_int_id |-> NULL,
                                    label_en |-> "label",
                                    label_nl |-> "NULL"]) @@ tbl
            ELSE tbl,
            ids, i + 1)

HarvestedStore(V) ==
    [Uninterrupted EXCEPT !.vocabulary = InsertVocabulary(<<>>, V, 1)]

----------------------------------------------------------------------------
(* Transactions *)

\* a statement that changes the store: DDL outside a transaction is durable
\* at once, anything else stays in the connection until commit
Autocommit(d) == IF in_transaction THEN disk ELSE d

----------------------------------------------------------------------------
(* Phase 4: Tier 2 resolution *)

NoResult == [kind |-> "none", tier2 |-> "NULL", refs |-> <<>>]
NotFound == [kind |-> "not_found", tier2 |-> "NULL", refs |-> <<>>]
Raised == [kind |-> "raise", tier2 |-> "NULL", refs |-> <<>>]

\* what the Linked Art endpoint can answer with: a payload without any
\* Tier 2 content, and one with an inscription and two production parts
Payloads ==
    {[kind |-> "payload", tier2 |-> "NULL", refs |-> <<>>],
     [kind |-> "payload", tier2 |-> "foo",
      refs |-> << <<"v2", "production_role">>,
                  <<"v1", "attribution_qualifier">> >>]}

\* the ways a fetch can end: a JSON-LD document, HTTP 404, another HTTP
\* error, a transport error, a body json.loads rejects, a document the
\* extraction cannot walk
Outcomes ==
    [kind : {"json"}, payload : Payloads]
    \cup [kind : {"404", "http", "transport", "malformed", "unwalkable"},
          payload : {NoResult}]

\* a 404 answer handled as every other HTTP error
resolve_artwork_404AsError(outcome) ==
    CASE outcome.kind = "json" -> outcome.payload
      [] outcome.kind = "unwalkable" -> Raised
      [] OTHER -> NoResult

\* every HTTP error handled as 404
resolve_artwork_ErrorAs404(outcome) ==
    CASE outcome.kind = "json" -> outcome.payload
      [] outcome.kind \in {"404", "http"} -> NotFound
      [] outcome.kind = "unwalkable" -> Raised
      [] OTHER -> NoResult

\* resolve_artwork: the value the worker returns, or the exception it dies of
resolve_artwork(outcome) ==
    CASE outcome.kind = "json" -> outcome.payload
      [] outcome.kind = "404" -> NotFound
      [] outcome.kind = "unwalkable" -> Raised
      [] OTHER -> NoResult

\* a future of the batch: its state, the value it holds, and (bookkeeping)
\* the way its fetch ended
Future(st, r, k) == [st |-> st, result |-> r, outcome |-> k]

\* fetch endings that are an HTTP error other than 404 or a transport error
TransientKinds == {"http", "transport"}

\* SELECT ... WHERE tier2_done = 0 AND linked_art_uri IS NOT NULL AND != ''
\* the same query without the tier2_done test
IsPendingAnyFlag(row) == row.linked_art_uri # ""

IsPending(row) == row.tier2_done = 0 /\ row.linked_art_uri # ""

PendingList(d) ==
    SelectSeq(ObjOrder,
              LAMBDA o : o \in DOMAIN d.artworks /\ IsPending(d.artworks[o]))

\* MAPPING_INSERT_SQL on the integer-encoded table without the join on
\* vocabulary: the id of a missing term becomes NULL
IntMappingInsertNoJoin(d, o, vid, field) ==
    IF /\ o \in DOMAIN d.artworks
       /\ field \in DOMAIN d.field_lookup.ids
       /\ d.artworks[o].art_id # NULL
    THEN LET t == <<d.artworks[o].art_id,
                    IF vid \in DOMAIN d.vocabulary
                    THEN d.vocabulary[vid].vocab_int_id ELSE NULL,
                    d.field_lookup.ids[field]>> IN
         [d EXCEPT !.mappings.rows = InsertOrIgnoreMapping(@, t)]
    ELSE d

\* MAPPING_INSERT_SQL on the integer-encoded table: INSERT OR IGNORE ...
\* SELECT a.art_id, v.vocab_int_id, f.id: a row only when all three joins
\* match, and OR IGNORE skips a NULL surrogate
IntMappingInsert(d, o, vid, field) ==
    IF /\ o \in DOMAIN d.artworks
       /\ vid \in DOMAIN d.vocabulary
       /\ field \in DOMAIN d.field_lookup.ids
       /\ d.artworks[o].art_id # NULL
       /\ d.vocabulary[vid].vocab_int_id # NULL
    THEN LET t == <<d.artworks[o].art_id, d.vocabulary[vid].vocab_int_id,
                    d.field_lookup.ids[field]>> IN
         [d EXCEPT !.mappings.rows = InsertOrIgnoreMapping(@, t)]
    ELSE d

MappingInsert(d, o, vid, field) ==
    IF int_mappings THEN IntMappingInsert(d, o, vid, field)
    ELSE [d EXCEPT !.mappings.rows =
                       InsertOrIgnoreMapping(@, <<o, vid, field>>)]

RECURSIVE InsertRefs(_, _, _, _)
InsertRefs(d, o, refs, i) ==
    IF i > Len(refs) THEN d
    ELSE InsertRefs(MappingInsert(d, o, refs[i][1], refs[i][2]),
                    o, refs, i + 1)

\* the dispatcher marks the artwork done although the task failed
HandleResultMarkFailed(d, o, result) ==
    IF result.kind \in {"none", "raise", "not_found"}
    THEN [d EXCEPT !.artworks[o].tier2_done = 1, !.artworks[o].via = "404"]
    ELSE InsertRefs([d EXCEPT !.artworks[o].tier2 = result.tier2,
                              !.artworks[o].tier2_done = 1,
                              !.artworks[o].via = "ok"],
                    o, result.refs, 1)

\* body of `for future in as_completed(futures)` for one future
HandleResult(d, o, result) ==
    IF result.kind \in {"none", "raise"} THEN d
    ELSE IF result.kind = "not_found"
    THEN [d EXCEPT !.artworks[o].tier2_done = 1, !.artworks[o].via = "404"]
    ELSE InsertRefs([d EXCEPT !.artworks[o].tier2 = result.tier2,
                              !.artworks[o].tier2_done = 1,
                              !.artworks[o].via = "ok"],
                    o, result.refs, 1)

Min(a, b) == IF a < b THEN a ELSE b

Running == {o \in DOMAIN futures : futures[o].st = "running"}

\* run_phase4 up to the thread pool: the pending query, the schema test
P4Start ==
    /\ pc = "p4_start"
    /\ IF PendingList(db) = <<>>
       THEN /\ pending' = <<>>
            /\ int_mappings' = FALSE
            /\ pc' = "p2b"
       ELSE /\ pending' = PendingList(db)
            /\ int_mappings' = (db.mappings.shape = "int")
            /\ pc' = "p4_submit"
    /\ batch_start' = 0
    /\ futures' = <<>>
    /\ failed' = {}
    /\ UNCHANGED <<db, disk, p1vars, in_transaction, start_phase,
                   orphan_msg, renameCrash, observed, threads,
                   embvars, latervars>>

\* pool.submit(resolve_artwork, uri) for every artwork of the next batch
P4Submit ==
    /\ pc = "p4_submit"
    /\ LET batch_end == Min(batch_start + commit_batch_size, Len(pending)) IN
       futures' = [o \in {pending[i] : i \in (batch_start + 1)..batch_end}
                       |-> Future("queued", NoResult, "none")]
    /\ pc' = "p4_wait"
    /\ UNCHANGED <<db, disk, p1vars, in_transaction, start_phase,
                   orphan_msg, renameCrash, pending, batch_start,
                   int_mappings, observed, failed, threads,
                   embvars, latervars>>

\* a free worker thread takes a queued task and sends the request
P4Fetch ==
    /\ pc = "p4_wait"
    /\ Cardinality(Running) < threads
    /\ \E o \in DOMAIN futures :
          /\ futures[o].st = "queued"
          /\ futures' = [futures EXCEPT
                            ![o] = Future("running", NoResult, "none")]
    /\ UNCHANGED <<db, disk, p1vars, mainvars, pending, batch_start,
                   int_mappings, observed, failed, threads,
                   embvars, latervars>>

\* the request ends and resolve_artwork returns or raises
P4Return ==
    /\ pc = "p4_wait"
    /\ \E o \in Running : \E outcome \in Outcomes :
          /\ futures' = [futures EXCEPT
                            ![o] = Future("done", resolve_artwork(outcome),
                                          outcome.kind)]
          /\ observed' = IF outcome.kind \in {"json", "404"}
                         THEN observed \cup {o} ELSE observed
          /\ failed' = IF outcome.kind \in TransientKinds
                       THEN failed \cup {o} ELSE failed
    /\ UNCHANGED <<db, disk, p1vars, mainvars, pending, batch_start,
                   int_mappings, threads, embvars, latervars>>

\* the dispatcher takes a completed future from as_completed
P4Handle ==
    /\ pc = "p4_wait"
    /\ \E o \in DOMAIN futures :
          /\ futures[o].st = "done"
          /\ db' = HandleResult(db, o, futures[o].result)
          /\ in_transaction' =
                (in_transaction
                    \/ futures[o].result.kind \in {"not_found", "payload"})
          /\ futures' = [futures EXCEPT
                            ![o] = Future("handled", NoResult, @.outcome)]
    /\ UNCHANGED <<disk, p1vars, pc, start_phase, orphan_msg, renameCrash,
                   pending, batch_start, int_mappings, observed, failed,
                   threads, embvars, latervars>>

\* all futures of the batch are handled: conn.commit(), next batch
P4Commit ==
    /\ pc = "p4_wait"
    /\ \A o \in DOMAIN futures : futures[o].st = "handled"
    /\ disk' = db
    /\ in_transaction' = FALSE
    /\ batch_start' = Min(batch_start + commit_batch_size, Len(pending))
    /\ pc' = IF Min(batch_start + commit_batch_size, Len(pending))
                    < Len(pending)
             THEN "p4_submit" ELSE "p4_end"
    /\ UNCHANGED <<db, p1vars, start_phase, orphan_msg, renameCrash,
                   pending, futures, int_mappings, observed, failed,
                   threads, embvars, latervars>>

\* run_phase4 leaves the thread pool and prints its statistics
P4End ==
    /\ pc = "p4_end"
    /\ pc' = "p2b"
    /\ pending' = <<>>
    /\ batch_start' = 0
    /\ futures' = <<>>
    /\ int_mappings' = FALSE
    /\ UNCHANGED <<db, disk, p1vars, in_transaction, start_phase,
                   orphan_msg, renameCrash, observed, failed,
                   threads, embvars, latervars>>

----------------------------------------------------------------------------
(* Phase 2 / 2b: vocabulary resolver *)

\* SELECT DISTINCT m.vocab_id FROM mappings m LEFT JOIN vocabulary v ...
\* WHERE v.id IS NULL; nothing on the integer-encoded schema
Unmatched(d) ==
    IF d.mappings.shape # "text" THEN {}
    ELSE {t[2] : t \in BagToSet(d.mappings.rows)} \ DOMAIN d.vocabulary

\* run_phase2 as one step of main: every unmatched id is looked up, the ids
\* of `resolved` answer with a usable entity, the others fail, one commit at
\* the end; or the extraction of some task raises, which ends main with the
\* open batch unwritten
P2b ==
    /\ pc = "p2b"
    /\ \/ /\ \E resolved \in SUBSET Unmatched(db) :
                /\ db' = [db EXCEPT
                             !.vocabulary = InsertVocabulary(@, resolved, 1)]
                /\ disk' = [db EXCEPT
                               !.vocabulary = InsertVocabulary(@, resolved, 1)]
          /\ pc' = "nm_guard"
          /\ UNCHANGED <<start_phase, threads>>
       \/ /\ Unmatched(db) # {}
          /\ db' = disk
          /\ pc' = "error"
          /\ start_phase' = 1
          /\ threads' = 1
          /\ UNCHANGED disk
    /\ in_transaction' = FALSE
    /\ UNCHANGED <<p1vars, orphan_msg, renameCrash, p4vars, embvars,
                   latervars>>

----------------------------------------------------------------------------
(* Phase 3: normalize_mappings and normalize_rights, one action per SQL    *)
(* statement that can change the durable store                             *)

\* the mapping enumeration in the order of ORDER BY field
FieldOrder ==
    <<"attribution_qualifier", "birth_place", "collection_set", "creator",
      "death_place", "material", "production_role", "profession", "spatial",
      "subject", "technique", "type">>
RightsOrder == <<"r1", "r2">>

\* INSERT INTO <lookup> (name) SELECT DISTINCT ...: INTEGER PRIMARY KEY ids
\* 1, 2, ... in the order the names arrive
Lookup(order, present) ==
    LET names == SelectSeq(order, LAMBDA n : n \in present) IN
    [shape |-> "lookup",
     ids |-> [n \in present \cap {order[i] : i \in DOMAIN order} |->
                 CHOOSE i \in DOMAIN names : names[i] = n]]

Steps ==
    {"nm_guard", "nm_art_alter", "nm_art_update", "nm_vocab_alter",
     "nm_vocab_update", "nm_commit1", "nm_fl_drop", "nm_fl_create",
     "nm_fl_insert", "nm_commit2", "nm_mi_drop", "nm_mi_create",
     "nm_mi_insert", "nm_commit3", "nm_rename1", "nm_rename2",
     "nm_drop_old", "nr_guard", "nr_drop", "nr_create", "nr_fill",
     "nr_drop_column", "p3_rest"}

\* the guard tests for a table that no run leaves behind
AlreadyEncodedByLeftover(d) == d.mappings_int.shape = "int"

\* guard of normalize_mappings: "artwork_id" in get_columns(conn, "mappings")
AlreadyEncoded(d) == d.mappings.shape = "int"

\* guard of normalize_rights: "rights_id" in get_columns(conn, "artworks")
RightsNormalized(d) == "rights_id" \in d.artworks_cols

\* the SELECT of step 3 with LEFT JOINs: an edge without its term is kept
\* under the id of the first term
JoinedRowLeft(d, t) ==
    IF /\ t[1] \in DOMAIN d.artworks
       /\ t[3] \in DOMAIN d.field_lookup.ids
    THEN {<<d.artworks[t[1]].art_id,
            IF t[2] \in DOMAIN d.vocabulary
            THEN d.vocabulary[t[2]].vocab_int_id ELSE 99,
            d.field_lookup.ids[t[3]]>>}
    ELSE {}

\* the SELECT of step 3 for one text edge: the joins on artworks, vocabulary
\* and field_lookup keep the edge only when all three rows exist
JoinedRow(d, t) ==
    IF /\ t[1] \in DOMAIN d.artworks
       /\ t[2] \in DOMAIN d.vocabulary
       /\ t[3] \in DOMAIN d.field_lookup.ids
    THEN {<<d.artworks[t[1]].art_id, d.vocabulary[t[2]].vocab_int_id,
            d.field_lookup.ids[t[3]]>>}
    ELSE {}

\* the rows the SELECT of step 3 produces, with multiplicity
JoinedRows(d) ==
    LET src == BagToSet(d.mappings.rows)
        out == UNION {JoinedRow(d, t) : t \in src} IN
    [r \in out |->
        Cardinality({t \in src : r \in JoinedRow(d, t)})]

\* INSERT INTO mappings_int fails on a NULL surrogate (NOT NULL) and on a
\* repeated triple (PRIMARY KEY)
InsertFails(rows) ==
    \E r \in DOMAIN rows : r[1] = NULL \/ r[2] = NULL \/ rows[r] > 1

\* a statement raises: the exception leaves main, the connection is closed
\* without commit
Abort ==
    /\ db' = disk
    /\ in_transaction' = FALSE
    /\ pc' = "error"
    /\ start_phase' = 1
    /\ threads' = 1
    /\ UNCHANGED <<disk, orphan_msg>>

\* a statement that succeeds: store d afterwards, DML says whether it opens
\* a transaction, then on to step next
Stmt(d, dml, next) ==
    /\ db' = d
    /\ disk' = IF dml \/ in_transaction THEN disk ELSE d
    /\ in_transaction' = (in_transaction \/ dml)
    /\ pc' = next
    /\ UNCHANGED <<orphan_msg, start_phase, threads>>

Commit(next) ==
    /\ disk' = db
    /\ in_transaction' = FALSE
    /\ pc' = next
    /\ UNCHANGED <<db, orphan_msg, start_phase, threads>>

Skip(next) ==
    /\ pc' = next
    /\ UNCHANGED <<db, disk, in_transaction, orphan_msg, start_phase,
                   threads>>

NormFrame == UNCHANGED <<p1vars, renameCrash, p4vars, embvars, latervars>>

NmGuard ==
    /\ pc = "nm_guard"
    /\ IF AlreadyEncoded(db) THEN Skip("nr_guard") ELSE Skip("nm_art_alter")
    /\ NormFrame

\* Step 1: ALTER TABLE artworks ADD COLUMN art_id
NmArtAlter ==
    /\ pc = "nm_art_alter"
    /\ IF "art_id" \notin db.artworks_cols
       THEN Stmt([db EXCEPT !.artworks_cols = @ \cup {"art_id"}], FALSE,
                 "nm_art_update")
       ELSE Skip("nm_vocab_alter")
    /\ NormFrame

\* UPDATE artworks SET art_id = rowid; CREATE UNIQUE INDEX
NmArtUpdate ==
    /\ pc = "nm_art_update"
    /\ Stmt([db EXCEPT !.artworks =
                [o \in DOMAIN db.artworks |->
                    [db.artworks[o] EXCEPT
                        !.art_id = db.artworks[o].rowid]]],
            TRUE, "nm_vocab_alter")
    /\ NormFrame

\* ALTER TABLE vocabulary ADD COLUMN vocab_int_id
NmVocabAlter ==
    /\ pc = "nm_vocab_alter"
    /\ IF "vocab_int_id" \notin db.vocabulary_cols
       THEN Stmt([db EXCEPT !.vocabulary_cols = @ \cup {"vocab_int_id"}],
                 FALSE, "nm_vocab_update")
       ELSE Skip("nm_commit1")
    /\ NormFrame

\* UPDATE vocabulary SET vocab_int_id = rowid; CREATE UNIQUE INDEX
NmVocabUpdate ==
    /\ pc = "nm_vocab_update"
    /\ Stmt([db EXCEPT !.vocabulary =
                [v \in DOMAIN db.vocabulary |->
                    [db.vocabulary[v] EXCEPT
                        !.vocab_int_id = db.vocabulary[v].rowid]]],
            TRUE, "nm_commit1")
    /\ NormFrame

NmCommit1 ==
    /\ pc = "nm_commit1"
    /\ Commit("nm_fl_drop")
    /\ NormFrame

\* Step 2: DROP TABLE IF EXISTS field_lookup
NmFieldLookupDrop ==
    /\ pc = "nm_fl_drop"
    /\ Stmt([db EXCEPT !.field_lookup = NoLookup], FALSE, "nm_fl_create")
    /\ NormFrame

\* CREATE TABLE field_lookup
NmFieldLookupCreate ==
    /\ pc = "nm_fl_create"
    /\ Stmt([db EXCEPT !.field_lookup = Lookup(FieldOrder, {})], FALSE,
            "nm_fl_insert")
    /\ NormFrame

\* INSERT INTO field_lookup (name) SELECT DISTINCT field FROM mappings
\* ORDER BY field; no such column on an integer-encoded mappings table
NmFieldLookupInsert ==
    /\ pc = "nm_fl_insert"
    /\ IF db.mappings.shape = "text"
       THEN Stmt([db EXCEPT !.field_lookup =
                     Lookup(FieldOrder,
                            {t[3] : t \in BagToSet(db.mappings.rows)})],
                 TRUE, "nm_commit2")
       ELSE Abort
    /\ NormFrame

NmCommit2 ==
    /\ pc = "nm_commit2"
    /\ Commit("nm_mi_drop")
    /\ NormFrame

\* Step 3: DROP TABLE IF EXISTS mappings_int
NmMappingsIntDrop ==
    /\ pc = "nm_mi_drop"
    /\ Stmt([db EXCEPT !.mappings_int = NoTable], FALSE, "nm_mi_create")
    /\ NormFrame

\* CREATE TABLE mappings_int (...) WITHOUT ROWID
NmMappingsIntCreate ==
    /\ pc = "nm_mi_create"
    /\ Stmt([db EXCEPT !.mappings_int = [shape |-> "int", rows |-> EmptyBag]],
            FALSE, "nm_mi_insert")
    /\ NormFrame

\* INSERT INTO mappings_int SELECT ... JOIN ...; the two counts and the
\* orphan note
NmMappingsIntInsert ==
    /\ pc = "nm_mi_insert"
    /\ IF InsertFails(JoinedRows(db))
       THEN Abort
       ELSE /\ db' = [db EXCEPT !.mappings_int.rows = JoinedRows(db)]
            /\ orphan_msg' =
                  (BagCardinality(JoinedRows(db))
                      < BagCardinality(db.mappings.rows))
            /\ in_transaction' = TRUE
            /\ pc' = "nm_commit3"
            /\ UNCHANGED <<disk, start_phase, threads>>
    /\ NormFrame

NmCommit3 ==
    /\ pc = "nm_commit3"
    /\ Commit("nm_rename1")
    /\ NormFrame

\* Step 4: ALTER TABLE mappings RENAME TO mappings_old; fails when a table
\* of that name exists
NmRenameOld ==
    /\ pc = "nm_rename1"
    /\ IF db.mappings_old.shape # "none"
       THEN Abort
       ELSE Stmt([db EXCEPT !.mappings_old = db.mappings,
                            !.mappings = NoTable], FALSE, "nm_rename2")
    /\ NormFrame

\* ALTER TABLE mappings_int RENAME TO mappings; conn.commit()
NmRenameNew ==
    /\ pc = "nm_rename2"
    /\ Stmt([db EXCEPT !.mappings = db.mappings_int,
                       !.mappings_int = NoTable], FALSE, "nm_drop_old")
    /\ NormFrame

\* DROP TABLE mappings_old; conn.commit(); Step 5 (indexes)
NmDropOld ==
    /\ pc = "nm_drop_old"
    /\ Stmt([db EXCEPT !.mappings_old = NoTable], FALSE, "nr_guard")
    /\ NormFrame

NrGuard ==
    /\ pc = "nr_guard"
    /\ IF RightsNormalized(db) THEN Skip("p3_rest") ELSE Skip("nr_drop")
    /\ NormFrame

\* DROP TABLE IF EXISTS rights_lookup
NrDrop ==
    /\ pc = "nr_drop"
    /\ Stmt([db EXCEPT !.rights_lookup = NoLookup], FALSE, "nr_create")
    /\ NormFrame

\* CREATE TABLE rights_lookup
NrCreate ==
    /\ pc = "nr_create"
    /\ Stmt([db EXCEPT !.rights_lookup = Lookup(RightsOrder, {})], FALSE,
            "nr_fill")
    /\ NormFrame

\* INSERT INTO rights_lookup ...; ALTER TABLE artworks ADD COLUMN rights_id;
\* UPDATE artworks SET rights_id = (SELECT ...); conn.commit()
NrFill ==
    /\ pc = "nr_fill"
    /\ LET lookup ==
              Lookup(RightsOrder,
                     {db.artworks[o].rights_uri : o \in DOMAIN db.artworks}
                        \ {""})
           d == [db EXCEPT
                    !.rights_lookup = lookup,
                    !.artworks_cols = @ \cup {"rights_id"},
                    !.artworks =
                       [o \in DOMAIN db.artworks |->
                           [db.artworks[o] EXCEPT !.rights_id =
                               IF db.artworks[o].rights_uri
                                     \in DOMAIN lookup.ids
                               THEN lookup.ids[db.artworks[o].rights_uri]
                               ELSE NULL]]] IN
       /\ db' = d
       /\ disk' = d
    /\ in_transaction' = FALSE
    /\ pc' = "nr_drop_column"
    /\ UNCHANGED <<orphan_msg, start_phase, threads>>
    /\ NormFrame

\* ALTER TABLE artworks DROP COLUMN rights_uri: SQLite >= 3.35.0 drops the
\* column, an older library raises and the column is retained
NrDropColumn ==
    /\ pc = "nr_drop_column"
    /\ \E supported \in BOOLEAN :
          IF supported
          THEN Stmt([db EXCEPT !.artworks_cols = @ \ {"rights_uri"}], FALSE,
                    "p3_rest")
          ELSE Skip("p3_rest")
    /\ NormFrame

\* the remainder of run_phase3 (statistics and derived tables, which are
\* not part of the modelled store) and conn.close()
P3Rest ==
    /\ pc = "p3_rest"
    /\ pc' = "done"
    /\ start_phase' = 1
    /\ threads' = 1
    /\ UNCHANGED <<db, disk, in_transaction, orphan_msg>>
    /\ NormFrame

----------------------------------------------------------------------------
(* main *)

RestStates == {"idle", "done", "crashed", "error"}

\* executescript(SCHEMA_SQL): CREATE TABLE IF NOT EXISTS mappings (text
\* columns), as every statement of the script durable at once
create_or_open_db(d) ==
    IF d.mappings.shape = "none"
    THEN [d EXCEPT !.mappings = [shape |-> "text", rows |-> EmptyBag]]
    ELSE d

\* --phase values tried (phases 0 to 2 are left out of these runs)
StartPhases == {3, 4, 5}

\* main with --phase N: create_or_open_db, then run_phase4 and run_phase2
\* if start_phase <= 4, then run_phase3
MainStart ==
    /\ pc \in RestStates
    /\ \E sp \in StartPhases : \E th \in 1..MaxThreads :
          /\ start_phase' = sp
          /\ threads' = th
          /\ pc' = IF sp <= 4 THEN "p4_start" ELSE "nm_guard"
    /\ db' = create_or_open_db(disk)
    /\ disk' = create_or_open_db(disk)
    /\ in_transaction' = FALSE
    /\ orphan_msg' = FALSE
    /\ UNCHANGED <<p1vars, renameCrash, p4vars, embvars, latervars>>

\* the process is killed
MainCrash ==
    /\ pc \notin RestStates
    /\ db' = disk
    /\ in_transaction' = FALSE
    /\ pc' = "crashed"
    /\ renameCrash' = (renameCrash \/ pc = "nm_rename2")
    /\ start_phase' = 1
    /\ threads' = 1
    /\ pending' = <<>>
    /\ batch_start' = 0
    /\ futures' = <<>>
    /\ int_mappings' = FALSE
    /\ UNCHANGED <<disk, p1vars, orphan_msg, observed, failed,
                   embvars, latervars>>

StoreInit ==
    /\ \E V \in InitialVocabularies :
          /\ db = HarvestedStore(V)
          /\ disk = HarvestedStore(V)
    /\ ckpt = NoFile
    /\ p1pc = "done"
    /\ url = 0
    /\ page = NumPages
    /\ attempt = 0
    /\ root = NumPages
    /\ pc = "idle"
    /\ in_transaction = FALSE
    /\ start_phase = 1
    /\ orphan_msg = FALSE
    /\ renameCrash = FALSE
    /\ pending = <<>>
    /\ batch_start = 0
    /\ futures = <<>>
    /\ int_mappings = FALSE
    /\ observed = {}
    /\ failed = {}
    /\ threads = 1
    /\ EmbInit
    /\ LaterInit

StoreNext ==
    \/ MainStart
    \/ P4Start
    \/ P4Submit
    \/ P4Fetch
    \/ P4Return
    \/ P4Handle
    \/ P4Commit
    \/ P4End
    \/ P2b
    \/ NmGuard
    \/ NmArtAlter
    \/ NmArtUpdate
    \/ NmVocabAlter
    \/ NmVocabUpdate
    \/ NmCommit1
    \/ NmFieldLookupDrop
    \/ NmFieldLookupCreate
    \/ NmFieldLookupInsert
    \/ NmCommit2
    \/ NmMappingsIntDrop
    \/ NmMappingsIntCreate
    \/ NmMappingsIntInsert
    \/ NmCommit3
    \/ NmRenameOld
    \/ NmRenameNew
    \/ NmDropOld
    \/ NrGuard
    \/ NrDrop
    \/ NrCreate
    \/ NrFill
    \/ NrDropColumn
    \/ P3Rest
    \/ MainCrash

SpecStore == StoreInit /\ [][StoreNext]_vars

----------------------------------------------------------------------------
(* generate-embeddings-v2.py: embed_and_write and _flush_batch *)

MaxArtworks == 4     \* artworks with tier2_done = 1 in the vocabulary store
COMMIT_BATCH == 2    \* 5000 in the source, scaled
BatchSizes == {1, 2} \* --batch-size values tried

HarvestFrame ==
    UNCHANGED <<db, disk, p1vars, mainvars, p4vars, threads, latervars>>

\* the columns load_artworks reads for the i-th artwork with tier2_done = 1
\* and the joined labels of its subject mappings, "" for NULL or empty: one
\* with a title, one with nothing, one with a creator label only, one with
\* subjects and a description, and so on
ArtworkRow(i) ==
    LET k == ((i - 1) % 4) + 1 IN
    [art_id |-> i, object_number |-> 100 + i,
     title_all_text |-> IF k = 1 THEN "t" ELSE "",
     creator_label |-> IF k = 3 THEN "c" ELSE "",
     subjects |-> IF k = 4 THEN "s" ELSE "",
     narrative_text |-> "",
     inscription_text |-> "",
     description_text |-> IF k = 4 THEN "d" ELSE ""]

Segments(row) ==
    << <<"Title", row.title_all_text>>, <<"Creator", row.creator_label>>,
       <<"Subjects", row.subjects>>, <<"Narrative", row.narrative_text>>,
       <<"Inscriptions", row.inscription_text>>,
       <<"Description", row.description_text>> >>

\* the composite text with the label of every field, empty or not
CompositeTextAllLabels(row) == Segments(row)

\* " ".join(f"[{label}] {val}" for label, val in fields if val): the text
\* as the sequence of its segments, <<>> for the empty string
CompositeText(row) == SelectSeq(Segments(row), LAMBDA f : f[2] # "")

\* load_artworks: (art_id, object_number, composite text) of the artworks
\* with tier2_done = 1; art_id is the stable surrogate id of a normalized
\* store
load_artworks ==
    [i \in 1..MaxArtworks |->
        [art_id |-> i, object_number |-> 100 + i,
         text |-> CompositeText(ArtworkRow(i))]]

\* model.encode("passage: " + text) followed by the int8 quantization
encode(text) == <<"passage: ", text>>

\* INSERT OR REPLACE INTO artwork_embeddings: art_id is the PRIMARY KEY and
\* object_number is UNIQUE, rows in conflict on either are deleted first
InsertOrReplaceEmbedding(tbl, row) ==
    LET kept == {i \in DOMAIN tbl :
                    /\ i # row.art_id
                    /\ tbl[i].object_number # row.object_number} IN
    [i \in kept \cup {row.art_id} |->
        IF i = row.art_id
        THEN [object_number |-> row.object_number,
              embedding |-> encode(row.text), source_text |-> row.text]
        ELSE tbl[i]]

RECURSIVE InsertEmbeddings(_, _)
InsertEmbeddings(tbl, rows) ==
    IF rows = <<>> THEN tbl
    ELSE InsertEmbeddings(InsertOrReplaceEmbedding(tbl, Head(rows)),
                          Tail(rows))

\* DELETE FROM vec_artworks WHERE artwork_id = ?, for every row of the batch
DeleteVec(vec, rows) ==
    [i \in DOMAIN vec \ {rows[j].art_id : j \in DOMAIN rows} |-> vec[i]]

\* INSERT INTO vec_artworks: a plain insert, a key that is present raises
InsertVecFails(vec, rows) ==
    \/ \E j \in DOMAIN rows : rows[j].art_id \in DOMAIN vec
    \/ \E j, k \in DOMAIN rows : j # k /\ rows[j].art_id = rows[k].art_id

InsertVec(vec, rows) ==
    [i \in DOMAIN vec \cup {rows[j].art_id : j \in DOMAIN rows} |->
        IF i \in DOMAIN vec THEN vec[i]
        ELSE encode((CHOOSE r \in {rows[j] : j \in DOMAIN rows} :
                        r.art_id = i).text)]

\* every statement of _flush_batch is durable as soon as it has run
AfterDmlAutocommit(new, old) == new

\* what is durable after a DML statement of _flush_batch: the implicit
\* transaction stays open until conn.commit()
AfterDml(new, old) == old

EmbRest == {"idle", "done", "crashed", "error"}

\* main up to the encode loop: load_artworks, --limit, CREATE TABLE IF NOT
\* EXISTS (which keeps existing rows), the resume sets
EmbStart ==
    /\ epc \in EmbRest
    /\ \E r \in BOOLEAN : \E bs \in BatchSizes : \E limit \in 0..MaxArtworks :
          /\ emb_resume' = r
          /\ batch_size' = bs
          /\ artworks' = IF limit > 0 THEN SubSeq(load_artworks, 1, limit)
                         ELSE load_artworks
          /\ LET in_regular == DOMAIN edisk.artwork_embeddings
                 in_vec == DOMAIN edisk.vec_artworks IN
             /\ existing_ids' = IF r THEN in_regular \cap in_vec ELSE {}
             /\ dangling' = IF r THEN in_regular \ (in_regular \cap in_vec)
                            ELSE {}
    /\ edb' = edisk
    /\ emb_start' = 0
    /\ batch_rows' = <<>>
    /\ inserted' = 0
    /\ final_flush' = FALSE
    /\ epc' = "loop"
    /\ UNCHANGED <<edisk, flushCrash>>
    /\ HarvestFrame

\* one pass of the encode loop
EmbEncode ==
    /\ epc = "loop"
    /\ emb_start < Len(artworks)
    /\ LET batch_end == Min(emb_start + batch_size, Len(artworks))
           indices_to_embed ==
               SelectSeq([k \in 1..(batch_end - emb_start) |-> emb_start + k],
                         LAMBDA i : /\ artworks[i].art_id \notin existing_ids
                                    /\ artworks[i].text # <<>>)
           rows == [j \in DOMAIN indices_to_embed |->
                       artworks[indices_to_embed[j]]]
       IN  /\ emb_start' = batch_end
           /\ batch_rows' = batch_rows \o rows
           /\ inserted' = inserted + Len(indices_to_embed)
           /\ IF indices_to_embed # <<>>
                 /\ Len(batch_rows \o rows) >= COMMIT_BATCH
              THEN epc' = "flush_regular"
              ELSE epc' = epc
    /\ final_flush' = FALSE
    /\ UNCHANGED <<edb, edisk, emb_resume, artworks, existing_ids, dangling,
                   batch_size, flushCrash>>
    /\ HarvestFrame

\* the loop is over: flush what remains
EmbLoopEnd ==
    /\ epc = "loop"
    /\ emb_start >= Len(artworks)
    /\ epc' = IF batch_rows # <<>> THEN "flush_regular" ELSE "meta"
    /\ final_flush' = (batch_rows # <<>>)
    /\ UNCHANGED <<edb, edisk, emb_resume, artworks, existing_ids, dangling,
                   emb_start, batch_size, batch_rows, inserted, flushCrash>>
    /\ HarvestFrame

FlushFrame ==
    /\ UNCHANGED <<emb_resume, artworks, existing_ids, dangling, emb_start,
                   batch_size, inserted, flushCrash>>
    /\ HarvestFrame

\* _flush_batch, executemany(INSERT OR REPLACE INTO artwork_embeddings)
FlushRegular ==
    /\ epc = "flush_regular"
    /\ LET e == [edb EXCEPT !.artwork_embeddings =
                                InsertEmbeddings(@, batch_rows)] IN
          /\ edb' = e
          /\ edisk' = AfterDml(e, edisk)
    /\ epc' = "flush_delete"
    /\ UNCHANGED <<batch_rows, final_flush>>
    /\ FlushFrame

\* _flush_batch, executemany(DELETE FROM vec_artworks)
FlushDelete ==
    /\ epc = "flush_delete"
    /\ LET e == [edb EXCEPT !.vec_artworks = DeleteVec(@, batch_rows)] IN
          /\ edb' = e
          /\ edisk' = AfterDml(e, edisk)
    /\ epc' = "flush_insert"
    /\ UNCHANGED <<batch_rows, final_flush>>
    /\ FlushFrame

\* _flush_batch, executemany(INSERT INTO vec_artworks); an IntegrityError
\* leaves main without commit
FlushInsert ==
    /\ epc = "flush_insert"
    /\ IF InsertVecFails(edb.vec_artworks, batch_rows)
       THEN /\ edb' = edisk
            /\ epc' = "error"
            /\ UNCHANGED edisk
       ELSE LET e == [edb EXCEPT !.vec_artworks = InsertVec(@, batch_rows)]
            IN  /\ edb' = e
                /\ edisk' = AfterDml(e, edisk)
                /\ epc' = "flush_commit"
    /\ UNCHANGED <<batch_rows, final_flush>>
    /\ FlushFrame

\* _flush_batch, conn.commit(); in the loop the two row lists are cleared
FlushCommit ==
    /\ epc = "flush_commit"
    /\ edisk' = edb
    /\ epc' = IF final_flush THEN "meta" ELSE "loop"
    /\ batch_rows' = IF final_flush THEN batch_rows ELSE <<>>
    /\ final_flush' = FALSE
    /\ UNCHANGED edb
    /\ FlushFrame

\* the metadata rows and their commit, conn.close(); validate and VACUUM
\* change no row
EmbMeta ==
    /\ epc = "meta"
    /\ LET e == [edb EXCEPT !.metadata =
                    [artwork_count |-> inserted + Cardinality(existing_ids),
                     quantization |-> "int8"]] IN
          /\ edb' = e
          /\ edisk' = e
    /\ epc' = "done"
    /\ batch_rows' = <<>>
    /\ UNCHANGED <<emb_resume, artworks, existing_ids, dangling, emb_start,
                   batch_size, final_flush, inserted, flushCrash>>
    /\ HarvestFrame

\* the process is killed
EmbCrash ==
    /\ epc \notin EmbRest
    /\ edb' = edisk
    /\ epc' = "crashed"
    /\ flushCrash' = (flushCrash \/ epc \in {"flush_delete", "flush_insert",
                                            "flush_commit"})
    /\ batch_rows' = <<>>
    /\ emb_start' = 0
    /\ inserted' = 0
    /\ final_flush' = FALSE
    /\ UNCHANGED <<edisk, emb_resume, artworks, existing_ids, dangling,
                   batch_size>>
    /\ HarvestFrame

EmbNext ==
    \/ EmbStart
    \/ EmbEncode
    \/ EmbLoopEnd
    \/ FlushRegular
    \/ FlushDelete
    \/ FlushInsert
    \/ FlushCommit
    \/ EmbMeta
    \/ EmbCrash

SpecEmb == StoreInit /\ [][EmbNext]_vars

\* embeddings stores a --resume run can find: artwork_embeddings and
\* vec_artworks each hold some of the first two artworks, not always the
\* same ones (INSERT OR REPLACE removes the row of another art_id with the
\* same object_number and leaves that id in vec_artworks)
DivergedStores ==
    {[artwork_embeddings |->
          [i \in R |-> [object_number |-> load_artworks[i].object_number,
                        embedding |-> encode(<<"old">>),
                        source_text |-> <<"old">>]],
      vec_artworks |-> [i \in V |-> encode(<<"old">>)],
      metadata |-> NoRows] : R \in SUBSET {1, 2}, V \in SUBSET {1, 2}}

ResumeInit ==
    /\ db = HarvestedStore({"v1"})
    /\ disk = HarvestedStore({"v1"})
    /\ ckpt = NoFile
    /\ p1pc = "done"
    /\ url = 0
    /\ page = NumPages
    /\ attempt = 0
    /\ root = NumPages
    /\ pc = "idle"
    /\ in_transaction = FALSE
    /\ start_phase = 1
    /\ orphan_msg = FALSE
    /\ renameCrash = FALSE
    /\ pending = <<>>
    /\ batch_start = 0
    /\ futures = <<>>
    /\ int_mappings = FALSE
    /\ observed = {}
    /\ failed = {}
    /\ threads = 1
    /\ LaterInit
    /\ \E store \in DivergedStores :
          /\ edb = store
          /\ edisk = store
    /\ epc = "idle"
    /\ emb_resume = FALSE
    /\ artworks = <<>>
    /\ existing_ids = {}
    /\ dangling = {}
    /\ emb_start = 0
    /\ batch_size = 1
    /\ batch_rows = <<>>
    /\ final_flush = FALSE
    /\ inserted = 0
    /\ flushCrash = FALSE

SpecResume == ResumeInit /\ [][EmbNext]_vars

----------------------------------------------------------------------------
(* Phase 2 / 2b in detail: resolve_uri and the dispatcher of run_phase2 *)

DEFAULT_THREADS == 3     \* 8 in the source, scaled
P2_BATCH == 2            \* len(batch) >= 200 in the source, scaled
P2Order == <<"u1", "u2", "u3">>

NoLabel == "NULL"
Name(content, lang) == [content |-> content, lang |-> lang]

\* identified_by lists of an entity document: no name at all; an empty
\* English name and a Dutch one; a name without language and an English one
NameLists ==
    {<<>>,
     <<Name("", "en"), Name("y", "nl")>>,
     <<Name("z", "none"), Name("x", "en")>>}

\* the ways a vocabulary fetch can end: a transport error, a body
\* json.loads rejects, a document of a type outside LA_TYPE_MAP, a document
\* the extraction cannot walk, a document of a mapped type
P2Outcomes ==
    [kind : {"transport", "malformed", "unmapped", "unwalkable"},
     names : {<<>>}]
    \cup [kind : {"json"}, names : NameLists]

\* the loop over identified_by: label_en, label_nl after the names
RECURSIVE Labels(_, _, _)
Labels(names, label_en, label_nl) ==
    IF names = <<>> THEN <<label_en, label_nl>>
    ELSE LET name == Head(names) IN
         IF name.content = "" THEN Labels(Tail(names), label_en, label_nl)
         ELSE IF name.lang = "en"
         THEN Labels(Tail(names),
                     IF label_en # NoLabel THEN label_en ELSE name.content,
                     label_nl)
         ELSE IF name.lang = "nl"
         THEN Labels(Tail(names), label_en,
                     IF label_nl # NoLabel THEN label_nl ELSE name.content)
         ELSE IF label_en = NoLabel /\ label_nl = NoLabel
         THEN Labels(Tail(names), name.content, label_nl)
         ELSE Labels(Tail(names), label_en, label_nl)

P2None == [kind |-> "none", id |-> "", label_en |-> NoLabel,
           label_nl |-> NoLabel]
P2Raised == [kind |-> "raise", id |-> "", label_en |-> NoLabel,
             label_nl |-> NoLabel]

\* resolve_uri: None for a fetch or parse failure and for an unmapped type,
\* an exception out of the extraction, else the record
resolve_uri(entity_id, outcome) ==
    CASE outcome.kind = "json" ->
            LET l == Labels(outcome.names, NoLabel, NoLabel) IN
            [kind |-> "entity", id |-> entity_id,
             label_en |-> l[1], label_nl |-> l[2]]
      [] outcome.kind = "unwalkable" -> P2Raised
      [] OTHER -> P2None

\* conn.executemany(VOCAB_INSERT_SQL, batch)
RECURSIVE VocabInsertMany(_, _)
VocabInsertMany(tbl, batch) ==
    IF batch = <<>> THEN tbl
    ELSE LET rec == Head(batch) IN
         VocabInsertMany(
            IF rec.id \in DOMAIN tbl THEN tbl
            ELSE (rec.id :> [rowid |-> NextRowid(tbl),
                             vocab_int_id |-> NULL,
                             label_en |-> rec.label_en,
                             label_nl |-> rec.label_nl]) @@ tbl,
            Tail(batch))

P2Running == {e \in DOMAIN p2_futures : p2_futures[e].st = "running"}

P2Frame == UNCHANGED <<p1vars, mainvars, p4vars, embvars, mnvars, geovars,
                       datevars, extravars>>

\* run_phase2 up to pool.submit for every unmatched id
P2Start ==
    /\ p2pc \in {"idle", "done", "error"}
    /\ \E th \in 1..MaxThreads : threads' = th
    /\ db' = disk
    /\ IF Unmatched(disk) = {}
       THEN /\ p2pc' = "done"
            /\ p2_futures' = NoRows
       ELSE /\ p2pc' = "wait"
            /\ p2_futures' = [e \in Unmatched(disk) |->
                                 Future("queued", P2None, "none")]
    /\ p2_batch' = <<>>
    /\ p2_resolved' = 0
    /\ p2_failed' = 0
    /\ UNCHANGED disk
    /\ P2Frame

\* a worker of the pool takes a queued task
P2Fetch ==
    /\ p2pc = "wait"
    /\ Cardinality(P2Running) < DEFAULT_THREADS
    /\ \E e \in DOMAIN p2_futures :
          /\ p2_futures[e].st = "queued"
          /\ p2_futures' = [p2_futures EXCEPT
                               ![e] = Future("running", P2None, "none")]
    /\ UNCHANGED <<db, disk, threads, p2pc, p2_batch, p2_resolved,
                   p2_failed>>
    /\ P2Frame

\* resolve_uri returns or raises in its worker
P2Return ==
    /\ p2pc = "wait"
    /\ \E e \in P2Running : \E outcome \in P2Outcomes :
          p2_futures' = [p2_futures EXCEPT
                            ![e] = Future("done", resolve_uri(e, outcome),
                                          outcome.kind)]
    /\ UNCHANGED <<db, disk, threads, p2pc, p2_batch, p2_resolved,
                   p2_failed>>
    /\ P2Frame

\* one pass of the as_completed loop: future.result() is not guarded, so an
\* exception of the task leaves run_phase2 and main; else the result is
\* batched or counted as failed, and a full batch is inserted and committed
P2Handle ==
    /\ p2pc = "wait"
    /\ \E e \in DOMAIN p2_futures :
          /\ p2_futures[e].st = "done"
          /\ LET result == p2_futures[e].result
                 batch == IF result.kind = "entity"
                          THEN Append(p2_batch, result) ELSE p2_batch
                 stored == [db EXCEPT !.vocabulary =
                                         VocabInsertMany(@, batch)]
             IN IF result.kind = "raise"
                THEN /\ p2pc' = "error"
                     /\ db' = disk
                     /\ p2_futures' = NoRows
                     /\ p2_batch' = <<>>
                     /\ UNCHANGED <<disk, p2_resolved, p2_failed>>
                ELSE /\ p2pc' = "wait"
                     /\ p2_futures' = [p2_futures EXCEPT
                                          ![e] = Future("handled", P2None,
                                                        @.outcome)]
                     /\ p2_resolved' = IF result.kind = "entity"
                                       THEN p2_resolved + 1 ELSE p2_resolved
                     /\ p2_failed' = IF result.kind = "entity"
                                     THEN p2_failed ELSE p2_failed + 1
                     /\ IF Len(batch) >= P2_BATCH
                        THEN /\ db' = stored
                             /\ disk' = stored
                             /\ p2_batch' = <<>>
                        ELSE /\ p2_batch' = batch
                             /\ UNCHANGED <<db, disk>>
    /\ UNCHANGED threads
    /\ P2Frame

\* after the loop: the rest of the batch and the last commit
P2Final ==
    /\ p2pc = "wait"
    /\ \A e \in DOMAIN p2_futures : p2_futures[e].st = "handled"
    /\ LET stored == [db EXCEPT !.vocabulary =
                                   VocabInsertMany(@, p2_batch)] IN
          /\ db' = stored
          /\ disk' = stored
    /\ p2pc' = "done"
    /\ UNCHANGED <<threads, p2_futures, p2_batch, p2_resolved, p2_failed>>
    /\ P2Frame

\* the store Phase 2 starts from: harvested edges whose terms no dump held
UnresolvedStore ==
    [EmptyStore EXCEPT
        !.mappings = [shape |-> "text",
                      rows |-> SetToBag({<<"a1", P2Order[i], "subject">> :
                                            i \in DOMAIN P2Order})]]

P2Init ==
    /\ db = UnresolvedStore
    /\ disk = UnresolvedStore
    /\ ckpt = NoFile
    /\ p1pc = "done"
    /\ url = 0
    /\ page = NumPages
    /\ attempt = 0
    /\ root = NumPages
    /\ pc = "idle"
    /\ in_transaction = FALSE
    /\ start_phase = 1
    /\ orphan_msg = FALSE
    /\ renameCrash = FALSE
    /\ pending = <<>>
    /\ batch_start = 0
    /\ futures = <<>>
    /\ int_mappings = FALSE
    /\ observed = {}
    /\ failed = {}
    /\ threads = 1
    /\ EmbInit
    /\ LaterInit

P2Next ==
    \/ P2Start
    \/ P2Fetch
    \/ P2Return
    \/ P2Handle
    \/ P2Final

SpecP2 == P2Init /\ [][P2Next]_vars

----------------------------------------------------------------------------
(* main: the phases in sequence *)

\* values of --phase tried (type=int, default 0)
PhaseArgs == 0..5

\* EXTERNAL_VOCAB and the vocabulary entries of the data dumps
ExternalVocab == <<[id |-> "aat", label_en |-> "label", label_nl |-> "label"]>>
DumpRecords == <<[id |-> "v1", label_en |-> "label", label_nl |-> "NULL"]>>

\* the sets of the ListSets response that have a setSpec and a setName
SetRecords == <<[id |-> "s1", label_en |-> "set", label_nl |-> "set"]>>

\* what the harvest of pages k..last adds to store d
RECURSIVE HarvestPages(_, _, _)
HarvestPages(d, k, last) ==
    IF k > last THEN d
    ELSE HarvestPages(InsertRecords(d, extract_records(k), 1), k + 1, last)

MnFrame == UNCHANGED <<p4vars, embvars, p2vars, geovars, datevars, extravars,
                       in_transaction, orphan_msg, renameCrash>>

\* main: parse_args, create_or_open_db, start_phase = args.phase
MnStart ==
    /\ mpc = "idle"
    /\ \E n \in PhaseArgs : \E sd \in BOOLEAN : \E th \in 1..MaxThreads :
          /\ phase_arg' = n
          /\ start_phase' = n
          /\ skip_dump' = sd
          /\ threads' = th
    /\ db' = create_or_open_db(disk)
    /\ disk' = create_or_open_db(disk)
    /\ mpc' = "phase0"
    /\ executed' = <<>>
    /\ exit_status' = "running"
    /\ UNCHANGED <<p1vars, pc>>
    /\ MnFrame

\* if start_phase <= 0 and not args.skip_dump: run_phase0(conn), with or
\* without the dumps directory
MnPhase0 ==
    /\ mpc = "phase0"
    /\ IF start_phase <= 0 /\ ~skip_dump
       THEN /\ \E dumps \in BOOLEAN :
                LET seeded == [db EXCEPT !.vocabulary =
                                  VocabInsertMany(@, ExternalVocab)]
                    parsed == [seeded EXCEPT !.vocabulary =
                                  VocabInsertMany(@, DumpRecords)]
                IN  /\ db' = IF dumps THEN parsed ELSE seeded
                    /\ disk' = IF dumps THEN parsed ELSE seeded
            /\ executed' = Append(executed, "0")
       ELSE UNCHANGED <<db, disk, executed>>
    /\ mpc' = "phase0_5"
    /\ UNCHANGED <<p1vars, pc, start_phase, threads, phase_arg, skip_dump,
                   exit_status>>
    /\ MnFrame

\* if start_phase <= 0: run_phase0_5(conn); a failure of urlopen or of
\* ET.fromstring is not caught and ends the process
MnPhase0_5 ==
    /\ mpc = "phase0_5"
    /\ IF start_phase <= 0
       THEN /\ executed' = Append(executed, "0.5")
            /\ \/ /\ db' = [db EXCEPT !.vocabulary =
                               VocabInsertMany(@, SetRecords)]
                  /\ disk' = [db EXCEPT !.vocabulary =
                                 VocabInsertMany(@, SetRecords)]
                  /\ mpc' = "phase1"
                  /\ UNCHANGED exit_status
               \/ /\ mpc' = "exit"
                  /\ exit_status' = 1
                  /\ UNCHANGED <<db, disk>>
       ELSE /\ mpc' = "phase1"
            /\ UNCHANGED <<db, disk, executed, exit_status>>
    /\ UNCHANGED <<p1vars, pc, start_phase, threads, phase_arg, skip_dump>>
    /\ MnFrame

\* if start_phase <= 1: run_phase1(conn, resume=args.resume), as a whole:
\* k pages are processed, then the harvest is complete (k = NumPages) or
\* the fetch of page k + 1 fails for good and the loop is left by `break`;
\* run_phase1 returns in both cases
MnPhase1 ==
    /\ mpc = "phase1"
    /\ IF start_phase <= 1
       THEN /\ executed' = Append(executed, "1")
            /\ \E k \in 0..NumPages :
                  /\ db' = HarvestPages(db, 1, k)
                  /\ disk' = HarvestPages(db, 1, k)
                  /\ url' = IF k = NumPages THEN 0 ELSE k + 1
                  /\ page' = IF k = NumPages THEN k ELSE k + 1
                  /\ root' = k
                  /\ ckpt' = IF k = NumPages THEN NoFile
                             ELSE IF k >= 1 THEN Checkpoint(k + 1, k)
                             ELSE ckpt
            /\ p1pc' = "done"
            /\ attempt' = 0
       ELSE UNCHANGED <<db, disk, executed, p1vars>>
    /\ mpc' = "phase2"
    /\ UNCHANGED <<pc, start_phase, threads, phase_arg, skip_dump,
                   exit_status>>
    /\ MnFrame

\* if start_phase <= 2: run_phase2(conn), as a whole: the entities that
\* resolve are inserted and committed, or a task raises and the exception
\* leaves main
MnPhase2 ==
    /\ mpc = "phase2"
    /\ IF start_phase <= 2
       THEN /\ executed' = Append(executed, "2")
            /\ \/ /\ \E resolved \in SUBSET Unmatched(db) :
                        /\ db' = [db EXCEPT !.vocabulary =
                                     InsertVocabulary(@, resolved, 1)]
                        /\ disk' = [db EXCEPT !.vocabulary =
                                       InsertVocabulary(@, resolved, 1)]
                  /\ mpc' = "phase4"
                  /\ UNCHANGED exit_status
               \/ /\ Unmatched(db) # {}
                  /\ db' = disk
                  /\ mpc' = "exit"
                  /\ exit_status' = 1
                  /\ UNCHANGED disk
       ELSE /\ mpc' = "phase4"
            /\ UNCHANGED <<db, disk, executed, exit_status>>
    /\ UNCHANGED <<p1vars, pc, start_phase, threads, phase_arg, skip_dump>>
    /\ MnFrame

\* if start_phase <= 4: run_phase4 and run_phase2 (Phase 2b); then
\* run_phase3.  The phases themselves are the actions P4Start to P3Rest.
MnLate ==
    /\ mpc = "phase4"
    /\ pc' = IF start_phase <= 4 THEN "p4_start" ELSE "nm_guard"
    /\ mpc' = "late"
    /\ UNCHANGED <<db, disk, p1vars, start_phase, threads, phase_arg,
                   skip_dump, executed, exit_status>>
    /\ MnFrame

\* conn.close() and the end of main, or the traceback of an exception that
\* left it
MnExit ==
    /\ mpc = "late"
    /\ pc \in {"done", "error"}
    /\ mpc' = "exit"
    /\ exit_status' = IF pc = "done" THEN 0 ELSE 1
    /\ UNCHANGED <<db, disk, p1vars, pc, start_phase, threads, phase_arg,
                   skip_dump, executed>>
    /\ MnFrame

\* the stores main is invoked on: none yet, or a harvested one
MainInit ==
    /\ \/ /\ db = EmptyStore
          /\ disk = EmptyStore
       \/ \E V \in InitialVocabularies :
             /\ db = HarvestedStore(V)
             /\ disk = HarvestedStore(V)
    /\ ckpt = NoFile
    /\ p1pc = "idle"
    /\ url = 0
    /\ page = 0
    /\ attempt = 0
    /\ root = 0
    /\ pc = "idle"
    /\ in_transaction = FALSE
    /\ start_phase = 1
    /\ orphan_msg = FALSE
    /\ renameCrash = FALSE
    /\ pending = <<>>
    /\ batch_start = 0
    /\ futures = <<>>
    /\ int_mappings = FALSE
    /\ observed = {}
    /\ failed = {}
    /\ threads = 1
    /\ EmbInit
    /\ LaterInit

MainNext ==
    \/ MnStart
    \/ MnPhase0
    \/ MnPhase0_5
    \/ MnPhase1
    \/ MnPhase2
    \/ MnLate
    \/ MnExit
    \/ P4Start
    \/ P4Submit
    \/ P4Fetch
    \/ P4Return
    \/ P4Handle
    \/ P4Commit
    \/ P4End
    \/ P2b
    \/ NmGuard
    \/ NmArtAlter
    \/ NmArtUpdate
    \/ NmVocabAlter
    \/ NmVocabUpdate
    \/ NmCommit1
    \/ NmFieldLookupDrop
    \/ NmFieldLookupCreate
    \/ NmFieldLookupInsert
    \/ NmCommit2
    \/ NmMappingsIntDrop
    \/ NmMappingsIntCreate
    \/ NmMappingsIntInsert
    \/ NmCommit3
    \/ NmRenameOld
    \/ NmRenameNew
    \/ NmDropOld
    \/ NrGuard
    \/ NrDrop
    \/ NrCreate
    \/ NrFill
    \/ NrDropColumn
    \/ P3Rest

SpecMain == MainInit /\ [][MainNext]_vars

----------------------------------------------------------------------------
(* geocode_places.py *)

MaxCands == 2    \* candidates the Wikidata search returns for a place

\* coordinates a remote service delivers, (0, 0) among them
Coord == {<<Real(0), Real(0)>>, <<Real(2), Real(3)>>}

\* get_ungeocoded(conn, category)
get_ungeocoded(tbl, category) ==
    {v \in DOMAIN tbl :
        /\ tbl[v].type = "place"
        /\ tbl[v].lat = Null
        /\ CASE category = "no_external_used" ->
                    tbl[v].external_id = <<"", "">> /\ tbl[v].used
             [] OTHER -> tbl[v].external_id[1] = category}

\* update_coords: UPDATE vocabulary SET lat = ?, lon = ? WHERE id = ? AND
\* lat IS NULL, for each item of updates; one commit
update_coords(tbl, upd) ==
    [v \in DOMAIN tbl |->
        IF v \in DOMAIN upd /\ tbl[v].lat = Null
        THEN [tbl[v] EXCEPT !.lat = upd[v][1], !.lon = upd[v][2]]
        ELSE tbl[v]]

\* update_coords_and_ids without `AND lat IS NULL`
update_coords_and_ids_AnyRow(tbl, upd) ==
    [v \in DOMAIN tbl |->
        IF v \in DOMAIN upd
        THEN [tbl[v] EXCEPT !.lat = upd[v][1], !.lon = upd[v][2],
                            !.external_id = upd[v][3]]
        ELSE tbl[v]]

\* update_coords_and_ids: the same with external_id = ?
update_coords_and_ids(tbl, upd) ==
    [v \in DOMAIN tbl |->
        IF v \in DOMAIN upd /\ tbl[v].lat = Null
        THEN [tbl[v] EXCEPT !.lat = upd[v][1], !.lon = upd[v][2],
                            !.external_id = upd[v][3]]
        ELSE tbl[v]]

\* the sum of cursor.rowcount
Rowcount(tbl, upd) ==
    Cardinality({v \in DOMAIN upd \cap DOMAIN tbl : tbl[v].lat = Null})

GeoFrame == UNCHANGED <<db, disk, p1vars, mainvars, p4vars, threads, embvars,
                        p2vars, mnvars, datevars, extravars>>

\* a phase that stops before update_coords (nothing to do, or --dry-run),
\* or update_coords called with dry_run or with an empty dict
GeoNothing(phase) ==
    /\ gphase' = phase
    /\ updates' = NoRows
    /\ updated' = 0
    /\ search_results' = NoRows
    /\ classes' = NoRows
    /\ UNCHANGED places

\* a phase that ends with update_coords(conn, results, dry_run)
GeoUpdate(phase, results) ==
    /\ gphase' = phase
    /\ updates' = results
    /\ updated' = Rowcount(places, results)
    /\ places' = update_coords(places, results)
    /\ search_results' = NoRows
    /\ classes' = NoRows

\* the answers of a remote service for one identifier: none (an error, a
\* status message, no binding) or coordinates
NoAnswer == <<Null, Null>>
Answers == {NoAnswer} \cup Coord

\* phase_1a_geonames: one GeoNames request per id; (0, 0) is skipped
phase_1a_geonames ==
    /\ gphase = "none"
    /\ dry_run' \in BOOLEAN
    /\
         LET todo == get_ungeocoded(places, "geonames") IN
         IF todo = {} \/ dry_run' THEN GeoNothing("1a")
         ELSE \E data \in [todo -> Answers] :
                 LET found == {v \in todo :
                                  /\ data[v] # NoAnswer
                                  /\ (data[v][1] # Real(0)
                                        \/ data[v][2] # Real(0))} IN
                 GeoUpdate("1a", [v \in found |-> data[v]])
    /\ GeoFrame

\* phase_1b_wikidata_alt without its return on dry_run, and with an
\* update_coords that does not look at dry_run
phase_1b_wikidata_alt_NoDryRun ==
    /\ gphase = "none"
    /\ dry_run' \in BOOLEAN
    /\
         LET todo == get_ungeocoded(places, "wikidata") IN
         IF todo = {} THEN GeoNothing("1b")
         ELSE \E bindings \in [todo -> Answers] :
                 LET found == {v \in todo : bindings[v] # NoAnswer} IN
                 GeoUpdate("1b", [v \in found |-> bindings[v]])
    /\ GeoFrame

\* phase_1b_wikidata_alt: the first binding of each QID
phase_1b_wikidata_alt ==
    /\ gphase = "none"
    /\ dry_run' \in BOOLEAN
    /\
         LET todo == get_ungeocoded(places, "wikidata") IN
         IF todo = {} \/ dry_run' THEN GeoNothing("1b")
         ELSE \E bindings \in [todo -> Answers] :
                 LET found == {v \in todo : bindings[v] # NoAnswer} IN
                 GeoUpdate("1b", [v \in found |-> bindings[v]])
    /\ GeoFrame

\* phase_1c_getty_crossref: the bindings of each TGN id
phase_1c_getty_crossref ==
    /\ gphase = "none"
    /\ dry_run' \in BOOLEAN
    /\
         LET todo == get_ungeocoded(places, "tgn") IN
         IF todo = {} \/ dry_run' THEN GeoNothing("1c")
         ELSE \E bindings \in [todo -> Answers] :
                 LET found == {v \in todo : bindings[v] # NoAnswer} IN
                 GeoUpdate("1c", [v \in found |-> bindings[v]])
    /\ GeoFrame

\* phase_2_self_refs: the self-join on vocabulary
phase_2_self_refs ==
    /\ gphase = "none"
    /\ dry_run' \in BOOLEAN
    /\
         LET rows == {v \in DOMAIN places :
                         /\ places[v].type = "place"
                         /\ places[v].lat = Null
                         /\ places[v].external_id[1] = "rijks"
                         /\ places[v].external_id[2] \in DOMAIN places
                         /\ places[places[v].external_id[2]].lat # Null}
             tgt(v) == places[places[v].external_id[2]] IN
         IF dry_run' THEN GeoNothing("2")
         ELSE IF rows = {}
              THEN GeoNothing("2")
              ELSE GeoUpdate("2", [v \in rows |-> <<tgt(v).lat, tgt(v).lon>>])
    /\ GeoFrame

\* scores of score_candidate, around the thresholds of step 3c
Scores == {40, 50, 59, 60, 79, 80, 100}

\* a candidate after scoring: its place in the search result, its score and
\* the coordinates validate_candidates_sparql found for it
CandidateLists ==
    UNION {[1..n -> [score : Scores,
                     coords : {Ungeocoded, <<Real(2), Real(3)>>}]] :
           n \in 0..MaxCands}

\* scored.sort(key=lambda x: x["score"], reverse=True): stable, the first
\* of equal scores stays first
RECURSIVE InsertByScore(_, _)
InsertByScore(sorted, c) ==
    IF sorted = <<>> THEN <<c>>
    ELSE IF Head(sorted).score >= c.score
         THEN <<Head(sorted)>> \o InsertByScore(Tail(sorted), c)
         ELSE <<c>> \o sorted

RECURSIVE SortByScore(_)
SortByScore(cands) ==
    IF cands = <<>> THEN <<>>
    ELSE InsertByScore(SortByScore(SubSeq(cands, 1, Len(cands) - 1)),
                       cands[Len(cands)])

\* the QID of the i-th entity of a search result
Qid(i) == <<"Q1", "Q2", "Q3", "Q4">>[i]

\* the candidates after scoring, sorted
Scored(cands) ==
    SortByScore([i \in DOMAIN cands |->
                    [qid |-> Qid(i), score |-> cands[i].score,
                     lat |-> cands[i].coords[1],
                     lon |-> cands[i].coords[2]]])

\* step 3c with `top["score"] > 80`
ClassifyAbove80(cands) ==
    IF cands = <<>> THEN "rejected"
    ELSE LET scored == Scored(cands)
             top == scored[1]
             gap == IF Len(scored) > 1 THEN top.score - scored[2].score
                    ELSE 100
             has_coords == top.lat # Null IN
         IF top.score > 80 /\ has_coords /\ gap >= 20 THEN "accepted"
         ELSE IF top.score >= 60 \/ (has_coords /\ top.score >= 50)
              THEN "review"
              ELSE "rejected"

\* step 3c: the decision for one place
Classify(cands) ==
    IF cands = <<>> THEN "rejected"
    ELSE LET scored == Scored(cands)
             top == scored[1]
             gap == IF Len(scored) > 1 THEN top.score - scored[2].score
                    ELSE 100
             has_coords == top.lat # Null IN
         IF top.score >= 80 /\ has_coords /\ gap >= 20 THEN "accepted"
         ELSE IF top.score >= 60 \/ (has_coords /\ top.score >= 50)
              THEN "review"
              ELSE "rejected"

\* phase_3_reconciliation: search, validation, step 3c, step 3d
phase_3_reconciliation ==
    /\ gphase = "none"
    /\ dry_run' \in BOOLEAN
    /\
         LET todo == {v \in get_ungeocoded(places, "no_external_used") :
                         places[v].name \notin {"", "unknown", "onbekend"}}
         IN
         IF get_ungeocoded(places, "no_external_used") = {} \/ dry_run'
         THEN GeoNothing("3")
         ELSE \E found \in [todo -> CandidateLists] :
                 LET decision == [v \in todo |-> Classify(found[v])]
                     accepted == {v \in todo : decision[v] = "accepted"}
                     top(v) == Scored(found[v])[1]
                     upd == [v \in accepted |->
                                <<top(v).lat, top(v).lon,
                                  <<"wikidata", top(v).qid>> >>] IN
                 /\ gphase' = "3"
                 /\ search_results' = found
                 /\ classes' = decision
                 /\ updates' = upd
                 /\ updated' = Rowcount(places, upd)
                 /\ places' = update_coords_and_ids(places, upd)
    /\ GeoFrame

\* rows of a reviewed CSV: approved and complete, not approved, approved
\* without qid_1, approved with a lat_1 that is no number
CsvRowKinds == {"approved", "declined", "no_qid", "bad_float"}
CsvIds == {"w1", "n1"}

\* apply_reviewed: the approved rows with qid_1, lat_1 and lon_1
apply_reviewed ==
    /\ gphase = "none"
    /\ dry_run' \in BOOLEAN
    /\ \E ids \in SUBSET CsvIds :
         \E csv \in [ids -> CsvRowKinds] :
            LET upd == [v \in {w \in ids : csv[w] = "approved"} |->
                           <<Real(2), Real(3), <<"wikidata", "Q5">> >>] IN
            IF dry_run' \/ DOMAIN upd = {} THEN GeoNothing("apply_reviewed")
            ELSE /\ gphase' = "apply_reviewed"
                 /\ updates' = upd
                 /\ updated' = Rowcount(places, upd)
                 /\ places' = update_coords_and_ids(places, upd)
                 /\ search_results' = NoRows
                 /\ classes' = NoRows
    /\ GeoFrame

\* phase_4_validation: one SELECT of the geocoded places, checks computed
\* from its rows, and validation_report.md written to the output directory
phase_4_validation ==
    /\ gphase = "none"
    /\ dry_run' \in BOOLEAN
    /\ GeoNothing("4")
    /\ GeoFrame

\* the phase function returns to main: its locals are gone
GeoReturn ==
    /\ gphase # "none"
    /\ gphase' = "none"
    /\ updates' = NoRows
    /\ updated' = 0
    /\ search_results' = NoRows
    /\ classes' = NoRows
    /\ dry_run' = FALSE
    /\ UNCHANGED places
    /\ GeoFrame

\* a harvested store whose places have coordinates or not
GeoInit ==
    /\ db = HarvestedStore({"v1"})
    /\ disk = HarvestedStore({"v1"})
    /\ ckpt = NoFile
    /\ p1pc = "done"
    /\ url = 0
    /\ page = NumPages
    /\ attempt = 0
    /\ root = NumPages
    /\ pc = "idle"
    /\ in_transaction = FALSE
    /\ start_phase = 1
    /\ orphan_msg = FALSE
    /\ renameCrash = FALSE
    /\ pending = <<>>
    /\ batch_start = 0
    /\ futures = <<>>
    /\ int_mappings = FALSE
    /\ observed = {}
    /\ failed = {}
    /\ threads = 1
    /\ EmbInit
    /\ P2Rest
    /\ MnRest
    /\ DatesRest
    /\ ExtraRest
    /\ \E G \in SUBSET {"g1", "w1", "n1"} : places = Places(G)
    /\ gphase = "none"
    /\ updates = NoRows
    /\ updated = 0
    /\ search_results = NoRows
    /\ classes = NoRows
    /\ dry_run = FALSE

GeoNext ==
    \/ phase_1a_geonames
    \/ phase_1b_wikidata_alt
    \/ phase_1c_getty_crossref
    \/ phase_2_self_refs
    \/ phase_3_reconciliation
    \/ apply_reviewed
    \/ phase_4_validation
    \/ GeoReturn

SpecGeo == GeoInit /\ [][GeoNext]_vars

----------------------------------------------------------------------------
(* resolve_artwork: the dates *)

\* values of begin_of_the_begin and end_of_the_end tried: none, 1650-01,
\* 1600-12, -0500-01, -500-01, 165, c.1650, and a number
TimespanValues ==
    {Str(<<>>),
     Str(<<"1", "6", "5", "0", "-", "0", "1">>),
     Str(<<"1", "6", "0", "0", "-", "1", "2">>),
     Str(<<"-", "0", "5", "0", "0", "-", "0", "1">>),
     Str(<<"-", "5", "0", "0", "-", "0", "1">>),
     Str(<<"1", "6", "5">>),
     Str(<<"c", ".", "1", "6", "5", "0">>),
     NotAString}

Digits == <<"0", "1", "2", "3", "4", "5", "6", "7", "8", "9">>
IsDigit(c) == \E i \in DOMAIN Digits : Digits[i] = c
DigitValue(c) == (CHOOSE i \in DOMAIN Digits : Digits[i] = c) - 1

RECURSIVE Decimal(_)
Decimal(s) ==
    IF s = <<>> THEN 0
    ELSE 10 * Decimal(SubSeq(s, 1, Len(s) - 1)) + DigitValue(s[Len(s)])

\* val[:n]
Prefix(s, n) == SubSeq(s, 1, Min(n, Len(s)))

\* int(year_str): an optional sign and digits; Null for ValueError
ParseInt(s) ==
    LET signed == s # <<>> /\ s[1] \in {"-", "+"}
        digits == IF signed THEN Tail(s) ELSE s IN
    IF digits = <<>> \/ \E i \in DOMAIN digits : ~IsDigit(digits[i])
    THEN Null
    ELSE <<IF signed /\ s[1] = "-" THEN 0 - Decimal(digits)
           ELSE Decimal(digits)>>

\* the body of `for key, target in ...` for one key: the year, or Null when
\* the variable is not assigned
YearOf(val) ==
    IF val.isstr /\ val.chars # <<>> /\ Len(val.chars) >= 4
    THEN ParseInt(IF val.chars[1] = "-" THEN Prefix(val.chars, 5)
             ELSE Prefix(val.chars, 4))
    ELSE Null

DatesFrame == UNCHANGED <<db, disk, p1vars, mainvars, p4vars, threads,
                          embvars, p2vars, mnvars, geovars, extravars>>

\* resolve_artwork is called on a payload
DatesPayload ==
    /\ dpc = "row"
    /\ \E b \in TimespanValues : \E e \in TimespanValues :
          timespan' = [begin_of_the_begin |-> b, end_of_the_end |-> e]
    /\ date_earliest' = Null
    /\ date_latest' = Null
    /\ dpc' = "payload"
    /\ DatesFrame

\* the date extraction from produced_by.timespan, with the single-year rule
DatesExtract ==
    /\ dpc = "payload"
    /\ LET earliest == YearOf(timespan.begin_of_the_begin)
           latest == YearOf(timespan.end_of_the_end) IN
       /\ date_earliest' = IF earliest = Null THEN latest ELSE earliest
       /\ date_latest' = IF latest = Null THEN earliest ELSE latest
    /\ dpc' = "row"
    /\ UNCHANGED timespan
    /\ DatesFrame

DatesInit ==
    /\ db = HarvestedStore({"v1"})
    /\ disk = HarvestedStore({"v1"})
    /\ ckpt = NoFile
    /\ p1pc = "done"
    /\ url = 0
    /\ page = NumPages
    /\ attempt = 0
    /\ root = NumPages
    /\ pc = "idle"
    /\ in_transaction = FALSE
    /\ start_phase = 1
    /\ orphan_msg = FALSE
    /\ renameCrash = FALSE
    /\ pending = <<>>
    /\ batch_start = 0
    /\ futures = <<>>
    /\ int_mappings = FALSE
    /\ observed = {}
    /\ failed = {}
    /\ threads = 1
    /\ EmbInit
    /\ LaterInit

DatesNext ==
    \/ DatesPayload
    \/ DatesExtract

SpecDates == DatesInit /\ [][DatesNext]_vars

----------------------------------------------------------------------------
(* run_phase1 and run_phase4 statement by statement: every conn.execute   *)
(* of one artwork is a step, and the process can be killed between any    *)
(* two of them.  A row of the store is named by its artwork and its part. *)

\* rec["mappings"] of the record of artwork o
RecordMappings(o) ==
    LET k == ((o - 1) % 3) + 1 IN
    IF k = 1 THEN <<"m:subject", "m:creator">>
    ELSE IF k = 2 THEN <<"m:subject">>
    ELSE <<>>

\* result["roles"] + result["qualifiers"] of the payload of artwork o
ResultRoles(o) ==
    LET k == ((o - 1) % 3) + 1 IN
    IF k = 1 THEN <<"m:production_role", "m:attribution_qualifier">>
    ELSE IF k = 2 THEN <<"m:production_role">>
    ELSE <<>>

\* the statements run_phase1 executes for one record: the INSERT into
\* artworks, then one INSERT into mappings per reference
Phase1Statements(o) ==
    << {"artwork"} >>
        \o [i \in 1..Len(RecordMappings(o)) |-> {RecordMappings(o)[i]}]

\* the statements run_phase4 executes for one future: none, the UPDATE of
\* tier2_done, or TIER2_UPDATE_SQL (the fields and tier2_done in one
\* statement) and one MAPPING_INSERT_SQL per role and qualifier
Phase4Statements(o, kind) ==
    IF kind = "none" THEN <<>>
    ELSE IF kind = "not_found" THEN << {"tier2_done"} >>
    ELSE << {"tier2", "tier2_done"} >>
            \o [i \in 1..Len(ResultRoles(o)) |-> {ResultRoles(o)[i]}]

\* INSERT OR IGNORE / UPDATE of the parts of one artwork
WriteRows(d, o, parts) ==
    [a \in DOMAIN d \cup {o} |->
        IF a = o
        THEN (IF o \in DOMAIN d THEN d[o] ELSE {}) \cup parts
        ELSE d[a]]

\* SELECT object_number ... WHERE tier2_done = 0, in rowid order
RowPending(d) ==
    LET S == {o \in DOMAIN d : "artwork" \in d[o] /\ "tier2_done" \notin d[o]}
    IN IF S = {} THEN <<>>
       ELSE CHOOSE s \in [1..Cardinality(S) -> S] :
                \A i, j \in 1..Cardinality(S) : i < j => s[i] < s[j]

RowFrame == UNCHANGED <<db, disk, p1vars, mainvars, p4vars, threads, embvars,
                        p2vars, mnvars, geovars, datevars, bkvars,
                        searchvars, ntvars>>

\* run_phase1 is entered without --resume
RowP1Start ==
    /\ rpc \in {"idle", "crashed"}
    /\ rpc' = "p1_fetch"
    /\ rpage' = 0
    /\ rart' = 0
    /\ rcur' = <<>>
    /\ rpending' = <<>>
    /\ rhandled' = 0
    /\ UNCHANGED <<rconn, rdisk>>
    /\ RowFrame

\* page += 1; fetch_oai_page returns; extract_records
RowP1Fetch ==
    /\ rpc = "p1_fetch"
    /\ rpage' = rpage + 1
    /\ rart' = rpage + 1
    /\ rcur' = Phase1Statements(rpage + 1)
    /\ rpc' = "p1_rows"
    /\ UNCHANGED <<rconn, rdisk, rpending, rhandled>>
    /\ RowFrame

\* page += 1; fetch_oai_page raises: break
RowP1Break ==
    /\ rpc = "p1_fetch"
    /\ rpage' = rpage + 1
    /\ rpc' = "p1_final"
    /\ UNCHANGED <<rconn, rdisk, rart, rcur, rpending, rhandled>>
    /\ RowFrame

\* a conn.execute that commits its statement at once
RowExecuteAutocommit ==
    /\ rpc \in {"p1_rows", "p4_rows"}
    /\ rcur # <<>>
    /\ rconn' = WriteRows(rconn, rart, Head(rcur))
    /\ rdisk' = WriteRows(rconn, rart, Head(rcur))
    /\ rcur' = Tail(rcur)
    /\ UNCHANGED <<rpc, rpage, rart, rpending, rhandled>>
    /\ RowFrame

\* one conn.execute of the current artwork, inside the open transaction
RowExecute ==
    /\ rpc \in {"p1_rows", "p4_rows"}
    /\ rcur # <<>>
    /\ rconn' = WriteRows(rconn, rart, Head(rcur))
    /\ rcur' = Tail(rcur)
    /\ UNCHANGED <<rdisk, rpc, rpage, rart, rpending, rhandled>>
    /\ RowFrame

\* the records of the page are inserted: the resumption token, and
\* `if page % BATCH_SIZE == 0: conn.commit()`
RowP1EndPage ==
    /\ rpc = "p1_rows"
    /\ rcur = <<>>
    /\ rdisk' = IF rpage % BATCH_SIZE = 0 THEN rconn ELSE rdisk
    /\ rpc' = IF rpage < NumPages THEN "p1_fetch" ELSE "p1_final"
    /\ UNCHANGED <<rconn, rpage, rart, rcur, rpending, rhandled>>
    /\ RowFrame

\* conn.commit() after the loop
RowP1Final ==
    /\ rpc = "p1_final"
    /\ rdisk' = rconn
    /\ rpc' = "idle"
    /\ UNCHANGED <<rconn, rpage, rart, rcur, rpending, rhandled>>
    /\ RowFrame

\* run_phase4 is entered: the pending query
RowP4Start ==
    /\ rpc \in {"idle", "crashed"}
    /\ rpending' = RowPending(rconn)
    /\ rpc' = IF RowPending(rconn) = <<>> THEN "idle" ELSE "p4_next"
    /\ rpage' = 0
    /\ rart' = 0
    /\ rcur' = <<>>
    /\ rhandled' = 0
    /\ UNCHANGED <<rconn, rdisk>>
    /\ RowFrame

\* as_completed yields a future of the current batch; its result is None,
\* not_found or a payload
RowP4Next ==
    /\ rpc = "p4_next"
    /\ \E kind \in {"none", "not_found", "payload"} :
       \E i \in 1..Min(commit_batch_size - rhandled, Len(rpending)) :
          /\ rart' = rpending[i]
          /\ rcur' = Phase4Statements(rpending[i], kind)
          /\ rpending' = [j \in 1..(Len(rpending) - 1) |->
                             IF j < i THEN rpending[j] ELSE rpending[j + 1]]
    /\ rhandled' = rhandled + 1
    /\ rpc' = "p4_rows"
    /\ UNCHANGED <<rconn, rdisk, rpage>>
    /\ RowFrame

\* the body of the loop ends for this future
RowP4EndFuture ==
    /\ rpc = "p4_rows"
    /\ rcur = <<>>
    /\ rpc' = IF rhandled = commit_batch_size \/ rpending = <<>>
              THEN "p4_commit" ELSE "p4_next"
    /\ UNCHANGED <<rconn, rdisk, rpage, rart, rcur, rpending, rhandled>>
    /\ RowFrame

\* conn.commit() after the batch
RowP4Commit ==
    /\ rpc = "p4_commit"
    /\ rdisk' = rconn
    /\ rhandled' = 0
    /\ rpc' = IF rpending = <<>> THEN "idle" ELSE "p4_next"
    /\ UNCHANGED <<rconn, rpage, rart, rcur, rpending>>
    /\ RowFrame

\* the process is killed, or an exception ends it: the open transaction is
\* rolled back
RowCrash ==
    /\ rpc \notin {"idle", "crashed"}
    /\ rconn' = rdisk
    /\ rpc' = "crashed"
    /\ UNCHANGED <<rdisk, rpage, rart, rcur, rpending, rhandled>>
    /\ RowFrame

RowNext ==
    \/ RowP1Start
    \/ RowP1Fetch
    \/ RowP1Break
    \/ RowExecute
    \/ RowP1EndPage
    \/ RowP1Final
    \/ RowP4Start
    \/ RowP4Next
    \/ RowP4EndFuture
    \/ RowP4Commit
    \/ RowCrash

SpecRows == DatesInit /\ [][RowNext]_vars

----------------------------------------------------------------------------
(* geocode_places.py: search_wikidata_entities._get_with_retry.  Time is  *)
(* counted in units of 0.2 s and kept as what is left of every timer.     *)

concurrency == 2     \* tasks inside the semaphore (3 in the source, scaled)
max_retries == 4     \* _get_with_retry(max_retries=4)

Workers == 1..concurrency

RECURSIVE Pow2(_)
Pow2(n) == IF n = 0 THEN 1 ELSE 2 * Pow2(n - 1)

\* wait = min(2 ** attempt * 5, 60), in units of 0.2 s
BackoffWait(attempt_) == Min(Pow2(attempt_) * 25, 300)

\* asyncio.sleep(2 ** attempt), in units of 0.2 s
RetrySleep(attempt_) == Pow2(attempt_) * 5

Statuses == {"429", "5xx", "200", "exception"}

BkFrame == UNCHANGED <<db, disk, p1vars, mainvars, p4vars, threads, embvars,
                       p2vars, mnvars, geovars, datevars, rowvars,
                       searchvars, ntvars>>

\* top of the loop: `if backoff_until > now: await asyncio.sleep(...)`,
\* then `await asyncio.sleep(0.2)`; the loop is over after max_retries + 1
\* attempts
GetCheck ==
    /\ \E w \in Workers :
          /\ get_pc[w] = "check"
          /\ IF attempt_no[w] > max_retries
             THEN /\ get_pc' = [get_pc EXCEPT ![w] = "done"]
                  /\ UNCHANGED sleep_left
             ELSE IF backoff_left > 0
             THEN /\ get_pc' = [get_pc EXCEPT ![w] = "backoff"]
                  /\ sleep_left' = [sleep_left EXCEPT ![w] = backoff_left]
             ELSE /\ get_pc' = [get_pc EXCEPT ![w] = "delay"]
                  /\ sleep_left' = [sleep_left EXCEPT ![w] = 1]
    /\ UNCHANGED <<backoff_left, attempt_no>>
    /\ BkFrame

\* the sleep until the deadline read at the top of the loop is over
GetBackoffOver ==
    /\ \E w \in Workers :
          /\ get_pc[w] = "backoff"
          /\ sleep_left[w] = 0
          /\ get_pc' = [get_pc EXCEPT ![w] = "delay"]
          /\ sleep_left' = [sleep_left EXCEPT ![w] = 1]
    /\ UNCHANGED <<backoff_left, attempt_no>>
    /\ BkFrame

\* asyncio.sleep(0.2) is over: session.get(url) sends the request
GetSend ==
    /\ \E w \in Workers :
          /\ get_pc[w] = "delay"
          /\ sleep_left[w] = 0
          /\ get_pc' = [get_pc EXCEPT ![w] = "get"]
    /\ UNCHANGED <<backoff_left, attempt_no, sleep_left>>
    /\ BkFrame

\* the response arrives, or session.get raises
GetResponse ==
    /\ \E w \in Workers : \E status \in Statuses :
          /\ get_pc[w] = "get"
          /\ IF status = "429"
             THEN /\ backoff_left' = BackoffWait(attempt_no[w])
                  /\ sleep_left' =
                        [sleep_left EXCEPT ![w] = BackoffWait(attempt_no[w])]
                  /\ get_pc' = [get_pc EXCEPT ![w] = "retry"]
                  /\ attempt_no' = [attempt_no EXCEPT ![w] = @ + 1]
             ELSE IF status = "5xx"
                     \/ (status = "exception" /\ attempt_no[w] < max_retries)
             THEN /\ sleep_left' =
                        [sleep_left EXCEPT ![w] = RetrySleep(attempt_no[w])]
                  /\ get_pc' = [get_pc EXCEPT ![w] = "retry"]
                  /\ attempt_no' = [attempt_no EXCEPT ![w] = @ + 1]
                  /\ UNCHANGED backoff_left
             ELSE /\ get_pc' = [get_pc EXCEPT ![w] = "done"]
                  /\ UNCHANGED <<backoff_left, attempt_no, sleep_left>>
    /\ BkFrame

\* the sleep after a 429, a 5xx or an exception is over: continue
GetRetry ==
    /\ \E w \in Workers :
          /\ get_pc[w] = "retry"
          /\ sleep_left[w] = 0
          /\ get_pc' = [get_pc EXCEPT ![w] = "check"]
    /\ UNCHANGED <<backoff_left, attempt_no, sleep_left>>
    /\ BkFrame

\* time passes until the next timer runs out
GetTick ==
    /\ LET T == ({sleep_left[w] : w \in Workers} \cup {backoff_left}) \ {0}
       IN /\ T # {}
          /\ LET d == CHOOSE t \in T : \A u \in T : t <= u IN
             /\ sleep_left' = [w \in Workers |-> Max({sleep_left[w] - d, 0})]
             /\ backoff_left' = Max({backoff_left - d, 0})
    /\ UNCHANGED <<get_pc, attempt_no>>
    /\ BkFrame

\* every task of asyncio.gather is about to send its first request
BackoffInit ==
    /\ db = HarvestedStore({"v1"})
    /\ disk = HarvestedStore({"v1"})
    /\ ckpt = NoFile
    /\ p1pc = "done"
    /\ url = 0
    /\ page = NumPages
    /\ attempt = 0
    /\ root = NumPages
    /\ pc = "idle"
    /\ in_transaction = FALSE
    /\ start_phase = 1
    /\ orphan_msg = FALSE
    /\ renameCrash = FALSE
    /\ pending = <<>>
    /\ batch_start = 0
    /\ futures = <<>>
    /\ int_mappings = FALSE
    /\ observed = {}
    /\ failed = {}
    /\ threads = 1
    /\ EmbInit
    /\ P2Rest
    /\ MnRest
    /\ GeoRest
    /\ DatesRest
    /\ RowRest
    /\ SearchRest
    /\ NtRest
    /\ backoff_left = 0
    /\ get_pc = [w \in Workers |-> "check"]
    /\ attempt_no = [w \in Workers |-> 0]
    /\ sleep_left = [w \in Workers |-> 0]

BackoffNext ==
    \/ GetCheck
    \/ GetBackoffOver
    \/ GetSend
    \/ GetResponse
    \/ GetRetry
    \/ GetTick

SpecBackoff == BackoffInit /\ [][BackoffNext]_vars

----------------------------------------------------------------------------
(* geocode_places.py: search_one and _search_wikidata_sync for one name.  *)
(* A name is the sequence of its characters; an answer is the list of     *)
(* QIDs of its "search" array, or no data (an error).                     *)

MaxName == 3         \* characters of a place name

NameChars == {"D", " ", "("}
SearchNames == UNION {[1..n -> NameChars] : n \in 1..MaxName}

NoData == [ok |-> FALSE, search |-> <<>>]
SearchAnswers ==
    {NoData} \cup {[ok |-> TRUE, search |-> l] :
                      l \in {<<>>, <<"Q1">>, <<"Q1", "Q1">>, <<"Q1", "Q2">>}}

\* the requests for one name: the name in nl, in en, the bare name in nl
SearchRequests == {"nl", "en", "bare"}

RECURSIVE Strip(_)
\* str.strip()
Strip(s) ==
    IF s = <<>> THEN s
    ELSE IF Head(s) = " " THEN Strip(Tail(s))
    ELSE IF s[Len(s)] = " " THEN Strip(SubSeq(s, 1, Len(s) - 1))
    ELSE s

\* re.match(r'^(.+?)\s*\(', name): the shortest prefix of at least one
\* character followed by spaces and "("; <<>> for None and for ""
strip_parenthetical(name) ==
    LET Fits(i) == \E j \in (i + 1)..Len(name) :
                      /\ name[j] = "("
                      /\ \A k \in (i + 1)..(j - 1) : name[k] = " "
        I == {i \in 1..Len(name) : Fits(i)} IN
    IF I = {} THEN <<>>
    ELSE Strip(SubSeq(name, 1, CHOOSE i \in I : \A k \in I : i <= k))

\* _parse_search_items(data, lang)
parse_search_items(data, lang) ==
    IF ~data.ok THEN <<>>
    ELSE [i \in 1..Len(data.search) |->
             [qid |-> data.search[i], match_lang |-> lang]]

\* _deduplicate_candidates(candidates, limit=5): the first occurrence of
\* every QID, at most five
deduplicate_candidates(candidates) ==
    LET first == SelectSeq([i \in 1..Len(candidates) |->
                               [c |-> candidates[i],
                                keep |-> \A k \in 1..(i - 1) :
                                    candidates[k].qid # candidates[i].qid]],
                           LAMBDA x : x.keep)
        unique == [i \in 1..Len(first) |-> first[i].c] IN
    SubSeq(unique, 1, Min(5, Len(unique)))

\* the loop over ("nl", "en") both functions have: the second language is
\* asked only when the first gave nothing
ProbeLanguages(data) ==
    IF parse_search_items(data["nl"], "nl") # <<>>
    THEN parse_search_items(data["nl"], "nl")
    ELSE parse_search_items(data["en"], "en")

\* search_one: nl, en, then the bare name when the name has a
\* parenthetical and nothing was found
search_one(name, data) ==
    LET candidates == ProbeLanguages(data)
        bare == strip_parenthetical(name) IN
    deduplicate_candidates(
        IF bare # <<>> /\ candidates = <<>>
        THEN parse_search_items(data["bare"], "nl")
        ELSE candidates)

\* _search_wikidata_sync: nl, en
search_wikidata_sync(name, data) ==
    deduplicate_candidates(ProbeLanguages(data))

SearchFrame == UNCHANGED <<db, disk, p1vars, mainvars, p4vars, threads,
                           embvars, p2vars, mnvars, geovars, datevars,
                           rowvars, bkvars, ntvars>>

\* search_wikidata_entities with aiohttp installed
SearchAsync ==
    /\ "async" \notin searched
    /\ results_async' = search_one(search_name, search_data)
    /\ searched' = searched \cup {"async"}
    /\ UNCHANGED <<search_name, search_data, results_sync>>
    /\ SearchFrame

\* search_wikidata_entities without aiohttp
SearchSync ==
    /\ "sync" \notin searched
    /\ results_sync' = search_wikidata_sync(search_name, search_data)
    /\ searched' = searched \cup {"sync"}
    /\ UNCHANGED <<search_name, search_data, results_async>>
    /\ SearchFrame

\* one name to search and the answers Wikidata gives for it
SearchInit ==
    /\ db = HarvestedStore({"v1"})
    /\ disk = HarvestedStore({"v1"})
    /\ ckpt = NoFile
    /\ p1pc = "done"
    /\ url = 0
    /\ page = NumPages
    /\ attempt = 0
    /\ root = NumPages
    /\ pc = "idle"
    /\ in_transaction = FALSE
    /\ start_phase = 1
    /\ orphan_msg = FALSE
    /\ renameCrash = FALSE
    /\ pending = <<>>
    /\ batch_start = 0
    /\ futures = <<>>
    /\ int_mappings = FALSE
    /\ observed = {}
    /\ failed = {}
    /\ threads = 1
    /\ EmbInit
    /\ P2Rest
    /\ MnRest
    /\ GeoRest
    /\ DatesRest
    /\ RowRest
    /\ BackoffRest
    /\ NtRest
    /\ search_name \in SearchNames
    /\ search_data \in [SearchRequests -> SearchAnswers]
    /\ searched = {}
    /\ results_async = <<>>
    /\ results_sync = <<>>

SearchNext ==
    \/ SearchAsync
    \/ SearchSync

SpecSearch == SearchInit /\ [][SearchNext]_vars

----------------------------------------------------------------------------
(* parse_nt_file: the choice of external_id among the equivalent URIs.    *)
(* A URI is its site and the rest; None is <<>>.                          *)

MaxEquivalents == 3  \* equivalent URIs in one entity file

EquivalentUris == {<<"iconclass.org", "25F">>, <<"wikidata.org", "Q1">>,
                   <<"vocab.getty.edu", "7">>, <<"geonames.org", "9">>}
EquivalentLists == UNION {[1..n -> EquivalentUris] : n \in 0..MaxEquivalents}

\* `for eq in equivalents`: the first that contains iconclass.org or
\* wikidata.org; without one, equivalents[0]
PickExternalId(eqs) ==
    LET I == {i \in DOMAIN eqs :
                 eqs[i][1] \in {"iconclass.org", "wikidata.org"}} IN
    IF I # {} THEN eqs[CHOOSE i \in I : \A k \in I : i <= k]
    ELSE IF eqs # <<>> THEN eqs[1]
    ELSE <<>>

NotParsed == <<"not parsed">>

NtFrame == UNCHANGED <<db, disk, p1vars, mainvars, p4vars, threads, embvars,
                       p2vars, mnvars, geovars, datevars, rowvars, bkvars,
                       searchvars>>

\* parse_nt_file on a file with these equivalents
NtParse ==
    /\ external_id = NotParsed
    /\ external_id' = PickExternalId(equivalents)
    /\ UNCHANGED equivalents
    /\ NtFrame

\* an entity file of the dump
NtInit ==
    /\ db = HarvestedStore({"v1"})
    /\ disk = HarvestedStore({"v1"})
    /\ ckpt = NoFile
    /\ p1pc = "done"
    /\ url = 0
    /\ page = NumPages
    /\ attempt = 0
    /\ root = NumPages
    /\ pc = "idle"
    /\ in_transaction = FALSE
    /\ start_phase = 1
    /\ orphan_msg = FALSE
    /\ renameCrash = FALSE
    /\ pending = <<>>
    /\ batch_start = 0
    /\ futures = <<>>
    /\ int_mappings = FALSE
    /\ observed = {}
    /\ failed = {}
    /\ threads = 1
    /\ EmbInit
    /\ P2Rest
    /\ MnRest
    /\ GeoRest
    /\ DatesRest
    /\ RowRest
    /\ BackoffRest
    /\ SearchRest
    /\ equivalents \in EquivalentLists
    /\ external_id = NotParsed

NtNext == NtParse

SpecNt == NtInit /\ [][NtNext]_vars

----------------------------------------------------------------------------
(* Phase 1 claims *)

\* the harvested columns of the artworks table (without the rowid)
Harvested(tbl) ==
    [o \in DOMAIN tbl |->
        <<tbl[o].title, tbl[o].rights_uri, tbl[o].linked_art_uri>>]

\* the rows of page k are all in store d
PageIn(k, d) ==
    \A i \in 1..Len(extract_records(k)) :
        LET rec == extract_records(k)[i] IN
        /\ rec.object_number \in DOMAIN d.artworks
        /\ \A j \in 1..Len(rec.mappings) :
              BagIn(<<rec.object_number, rec.mappings[j][1],
                      rec.mappings[j][2]>>, d.mappings.rows)

\* C1: a harvest that ran to completion (last page reached), whatever
\* crashes and --resume restarts came before, leaves the same artwork rows
\* and mapping rows as an uninterrupted harvest of the feed.
C1_ResumeYieldsUninterrupted ==
    (p1pc = "done" /\ url = 0) =>
        /\ Harvested(disk.artworks) = Harvested(Uninterrupted.artworks)
        /\ disk.mappings.rows = Uninterrupted.mappings.rows

\* C2: the checkpoint file names page k only when the rows of pages 1..k
\* are committed.
C2_CheckpointOnlyCommitted ==
    ckpt.state = "json" => \A k \in 1..ckpt.page : PageIn(k, disk)

\* C10: processing a page leaves every existing artwork row as it was,
\* adds a mapping row only when that triple is absent, and processing any
\* page a second time changes nothing.
ReplayConverges(d) ==
    \A k \in 1..NumPages :
        LET once == InsertRecords(d, extract_records(k), 1) IN
        /\ InsertRecords(once, extract_records(k), 1) = once
        /\ \A j \in 1..NumPages :
              LET then == InsertRecords(once, extract_records(j), 1) IN
              InsertRecords(then, extract_records(k), 1) = then

InsertIfAbsentStep ==
    (p1pc = "insert" /\ p1pc' # "idle") =>
        /\ \A o \in DOMAIN db.artworks :
              o \in DOMAIN db'.artworks /\ db'.artworks[o] = db.artworks[o]
        /\ \A t \in BagToSet(db'.mappings.rows) :
              CopiesIn(t, db'.mappings.rows) = 1
        /\ \A t \in BagToSet(db.mappings.rows) :
              BagIn(t, db'.mappings.rows)
        /\ PageIn(root, db')

C10_PageReplayConverges ==
    [][InsertIfAbsentStep /\ ReplayConverges(db) /\ ReplayConverges(db')]_vars

\* a page has just been processed whose rows were all committed before
C10_Witness ==
    /\ p1pc \in {"save_open", "batch"}
    /\ root = 2
    /\ PageIn(root, disk)

----------------------------------------------------------------------------
(* Phase 4 and normalization claims *)

Stores == {db, disk}

RoleFields == {"production_role", "attribution_qualifier"}

\* the production_role / attribution_qualifier edges the mappings table of
\* store d holds for artwork o, under either encoding
RoleEdges(d, o) ==
    LET text(tbl) == {t \in BagToSet(tbl.rows) :
                         tbl.shape = "text" /\ t[1] = o /\ t[3] \in RoleFields}
        int(tbl) == {t \in BagToSet(tbl.rows) :
                        /\ tbl.shape = "int"
                        /\ t[1] = d.artworks[o].art_id
                        /\ \E f \in RoleFields \cap DOMAIN d.field_lookup.ids :
                              t[3] = d.field_lookup.ids[f]} IN
    text(d.mappings) \cup int(d.mappings)

\* C3: tier2_done = 1 only for artworks some fetch answered with a payload
\* or with 404; when a batch of Phase 4 is committed, exactly the artworks
\* of the batch whose fetch ended that way are marked; the flag is never
\* taken back.
C3_DoneOnlyIfObserved ==
    \A d \in Stores : \A o \in DOMAIN d.artworks :
        d.artworks[o].tier2_done = 1 => o \in observed

C3_BatchMarked ==
    (pc \in {"p4_submit", "p4_end"} /\ batch_start > 0) =>
        \A o \in DOMAIN futures :
            (disk.artworks[o].tier2_done = 1)
                <=> (futures[o].outcome \in {"json", "404"})

C3_DoneStays ==
    \A o \in DOMAIN disk.artworks :
        disk.artworks[o].tier2_done = 1 =>
            /\ o \in DOMAIN disk'.artworks
            /\ disk'.artworks[o].tier2_done = 1

C3_DoneIffObserved ==
    /\ [](C3_DoneOnlyIfObserved /\ C3_BatchMarked)
    /\ [][C3_DoneStays]_vars

\* a committed batch with one artwork answered and one transient failure
C3_Witness ==
    /\ pc = "p4_end"
    /\ \E o \in DOMAIN futures :
          futures[o].outcome = "404" /\ disk.artworks[o].tier2_done = 1
    /\ \E o \in DOMAIN futures :
          futures[o].outcome = "http" /\ disk.artworks[o].tier2_done = 0

\* C4: Phase 4 submits a fetch only for artworks with tier2_done = 0; an
\* artwork marked done after a 404 has NULL Tier 2 columns and no
\* production_role / attribution_qualifier edge.
C4_SubmitOnlyUndone ==
    (pc = "p4_submit" /\ pc' = "p4_wait") =>
        \A o \in DOMAIN futures' :
            /\ db.artworks[o].tier2_done = 0
            /\ disk.artworks[o].tier2_done = 0

C4_NotFoundStaysEmpty ==
    \A d \in Stores : \A o \in DOMAIN d.artworks :
        d.artworks[o].via = "404" =>
            /\ d.artworks[o].tier2_done = 1
            /\ d.artworks[o].tier2 = "NULL"
            /\ RoleEdges(d, o) = {}

C4_DoneNeverRefetched ==
    [][C4_SubmitOnlyUndone /\ C4_NotFoundStaysEmpty
          /\ C4_NotFoundStaysEmpty']_vars

\* a later Phase 4 run fetches a2 while a1, committed as 404, is left out
C4_Witness ==
    /\ pc = "p4_wait"
    /\ disk.artworks["a1"].via = "404"
    /\ DOMAIN futures = {"a2"}
    /\ futures["a2"].st = "running"

\* C5: when the dispatcher takes a future whose fetch ended in a non-404
\* HTTP error or a transport error, the store is left as it was, and the
\* next Phase 4 run has the artwork in its pending list.
C5_FailureStep ==
    \A o \in DOMAIN futures :
        (/\ pc = "p4_wait" /\ pc' = "p4_wait"
         /\ futures[o].st = "done"
         /\ futures[o].outcome \in TransientKinds
         /\ o \in DOMAIN futures' /\ futures'[o].st = "handled")
        => (db' = db /\ disk' = disk)

C5_RetriedNextRun ==
    (pc = "p4_start" /\ pc' \in {"p2b", "p4_submit"}) =>
        \A o \in failed : \E i \in DOMAIN pending' : pending'[i] = o

C5_FailureLeavesPending == [][C5_FailureStep /\ C5_RetriedNextRun]_vars

\* the next run starts with an artwork that failed in the run before
C5_Witness ==
    /\ pc = "p4_submit"
    /\ \E i \in DOMAIN pending : pending[i] = "a1"
    /\ "a1" \notin observed
    /\ disk.artworks["a2"].tier2_done = 1

\* C6: every row of an integer-encoded mappings table names the
\* vocab_int_id of an existing vocabulary row, and no triple occurs twice.
C6_IntEdgesValid ==
    \A d \in Stores :
        d.mappings.shape = "int" =>
            \A r \in BagToSet(d.mappings.rows) :
                /\ CopiesIn(r, d.mappings.rows) = 1
                /\ r[2] # NULL
                /\ \E v \in DOMAIN d.vocabulary :
                      d.vocabulary[v].vocab_int_id = r[2]

\* Phase 4 has added a production edge to the integer-encoded table
C6_Witness ==
    /\ int_mappings
    /\ pc = "p4_end"
    /\ disk.mappings.shape = "int"
    /\ \E o \in DOMAIN futures :
          futures[o].outcome = "json" /\ RoleEdges(disk, o) # {}

\* C8: after a kill between the two renames of step 4, the run that
\* follows ends with the integer-encoded mappings table in place, holding
\* the migrated edges, and without a leftover mappings_int.
C8_RenameCrashRecovers ==
    (renameCrash /\ pc \in {"done", "error"}) =>
        /\ disk.mappings.shape = "int"
        /\ disk.mappings.rows # EmptyBag
        /\ disk.mappings_int.shape = "none"

\* C9: on a store that is already normalized, normalize_mappings and
\* normalize_rights go straight through their guards: no table, row or
\* surrogate id changes and no orphan note is printed.
AlreadyNormalized(d) ==
    d.mappings.shape = "int" /\ "rights_id" \in d.artworks_cols

C9_Step ==
    (pc \in {"nm_guard", "nr_guard"} /\ AlreadyNormalized(disk)
        /\ pc' # "crashed") =>
        /\ db' = db
        /\ disk' = disk
        /\ ~orphan_msg /\ ~orphan_msg'
        /\ pc' = IF pc = "nm_guard" THEN "nr_guard" ELSE "p3_rest"

----------------------------------------------------------------------------
(* Embedding claims *)

----------------------------------------------------------------------------
(* Phase 1 checkpoint and retry claims *)

\* C11: after a harvest that reached the last page the checkpoint file is
\* absent; after a harvest that stopped on a fatal fetch the file saved
\* for the last processed page is still there, and no step between the
\* fatal fetch and the return of run_phase1 touches it.
C11_AtReturn ==
    /\ (p1pc = "done" /\ url = 0) => ckpt = NoFile
    /\ (p1pc = "done" /\ url # 0 /\ root # 0) =>
          ckpt = Checkpoint(url, page - 1)

C11_FatalPath ==
    (p1pc \in {"fetch", "final", "unlink"} /\ url # 0 /\ p1pc' # "idle")
        => ckpt' = ckpt

C11_CheckpointAtEnd == []C11_AtReturn /\ [][C11_FatalPath]_vars

\* run_phase1 has returned after a fatal fetch on a page after the first
C11_Witness ==
    /\ p1pc = "done"
    /\ url # 0
    /\ root # 0
    /\ ckpt = Checkpoint(url, page - 1)

\* C12: a page fetch is fatal only at the fourth consecutive failure of the
\* same page (after three retries), and the fatal fetch leaves the
\* checkpoint file as it was.
C12_FatalStep ==
    (p1pc = "fetch" /\ p1pc' = "final") =>
        /\ attempt = 3
        /\ ckpt' = ckpt

C12_FourthFailureFatal == [][C12_FatalStep]_vars

----------------------------------------------------------------------------
(* Resolver dispatcher claims *)

FailureKinds == {"transport", "malformed", "unwalkable"}

\* C13: when the dispatcher of Phase 2 takes a task that failed (transport
\* error, unparsable or unwalkable payload), the phase goes on: the failure
\* is counted, nothing is written for the id, and the phase ends with every
\* task handled and every resolved record committed.
C13_FailureStep ==
    \A e \in DOMAIN p2_futures :
        (/\ p2pc = "wait"
         /\ p2_futures[e].st = "done"
         /\ p2_futures[e].outcome \in FailureKinds
         /\ (e \notin DOMAIN p2_futures' \/ p2_futures'[e].st # "done"))
        => /\ p2pc' = "wait"
           /\ p2_failed' = p2_failed + 1
           /\ e \notin DOMAIN db'.vocabulary

C13_TaskFailureNotFatal == [][C13_FailureStep]_vars

\* C14: at no time are more resolver fetches of Phase 2 in flight than
\* --threads allows.
C14_InFlightBounded == Cardinality(P2Running) <= threads

\* C19: every vocabulary row has a label_en or a label_nl.
C19_SomeLabel ==
    \A d \in Stores : \A v \in DOMAIN d.vocabulary :
        \/ d.vocabulary[v].label_en \notin {NoLabel, ""}
        \/ d.vocabulary[v].label_nl \notin {NoLabel, ""}

----------------------------------------------------------------------------
(* Claims on main *)

Ran(p) == \E i \in DOMAIN executed : executed[i] = p

\* run_phase1 has returned in this run after a fetch that failed for good
Phase1Fatal ==
    /\ mpc \in {"phase2", "phase4", "late", "exit"}
    /\ Ran("1")
    /\ url # 0

\* C15: when the Phase 1 fetch fails fatally the run stops: no later phase
\* is executed and the process ends with a non-zero exit status
C15_FatalStopsRun ==
    Phase1Fatal =>
        /\ ~Ran("2")
        /\ pc = "idle"
        /\ mpc = "exit" => exit_status # 0

PipelineOrder == <<"0", "0.5", "1", "2", "4", "2b", "3">>
Position(p) == CHOOSE i \in DOMAIN PipelineOrder : PipelineOrder[i] = p
ArgPosition == Position(<<"0", "1", "2", "3", "4">>[phase_arg + 1])
Phase4Positions == {"p4_start", "p4_submit", "p4_wait", "p4_end"}

\* C16: with --phase N, N one of 0, 1, 2, 3, 4, only phases at or after
\* phase N in the order 0, 0.5, 1, 2, 4, 2b, 3 are executed; --phase 3
\* executes neither Phase 4 nor Phase 2b
C16_PhasesFromN ==
    (mpc # "idle" /\ phase_arg \in 0..4) =>
        /\ \A i \in DOMAIN executed : Position(executed[i]) >= ArgPosition
        /\ pc \in Phase4Positions => Position("4") >= ArgPosition
        /\ pc = "p2b" => Position("2b") >= ArgPosition

----------------------------------------------------------------------------
(* Geocoder claims *)

C17_BothOrNeither ==
    \A v \in DOMAIN places : places[v].lat = Null <=> places[v].lon = Null

C17_Step ==
    \A v \in DOMAIN places :
        /\ places[v].lat # Null => places'[v] = places[v]
        /\ places'[v] # places[v] =>
              /\ places'[v].lat # Null
              /\ places'[v].lon # Null
        /\ places'[v].external_id # places[v].external_id =>
              /\ gphase' \in {"3", "apply_reviewed"}
              /\ places'[v].external_id[1] = "wikidata"
              /\ places'[v].lat # places[v].lat

\* C17: no geocoder phase (1a, 1b, 1c, 2, 3d) and no --apply-reviewed run
\* changes lat, lon or external_id of a place that has coordinates; a row is
\* written only while its lat is NULL, lat and lon are set together (with
\* the Wikidata external id in 3d and apply-reviewed), and a place has lat
\* if and only if it has lon
C17_GeocodedUntouched == []C17_BothOrNeither /\ [][C17_Step]_vars

\* apply_reviewed has written one approved row and has left alone another
\* approved row, of a place that had coordinates
C17_Witness ==
    /\ gphase = "apply_reviewed"
    /\ updated > 0
    /\ \E v \in DOMAIN updates :
          /\ places[v].lat # Null
          /\ places[v].lat # updates[v][1]
          /\ places[v].external_id # updates[v][3]

\* the top candidate: the first one of the highest score
TopIndex(c) ==
    CHOOSE i \in DOMAIN c :
        /\ \A j \in DOMAIN c : c[j].score <= c[i].score
        /\ \A j \in 1..(i - 1) : c[j].score < c[i].score

C18_Accepted(c) ==
    LET i == TopIndex(c) IN
    /\ c[i].score >= 80
    /\ c[i].coords[1] # Null
    /\ \A j \in DOMAIN c \ {i} : c[i].score - c[j].score >= 20

C18_Review(c) ==
    LET i == TopIndex(c) IN
    /\ ~C18_Accepted(c)
    /\ \/ c[i].score >= 60
       \/ c[i].score >= 50 /\ c[i].coords[1] # Null

\* C18: in step 3c a place with candidates is accepted iff the top score is
\* >= 80, the top candidate has coordinates and leads the runner-up by >= 20
\* (a single candidate meets the gap condition); otherwise it is for review
\* iff the top score is >= 60, or >= 50 with coordinates; otherwise it is
\* rejected; only accepted places are written
C18_Classification ==
    gphase = "3" =>
        \A v \in DOMAIN search_results :
            LET c == search_results[v] IN
            c # <<>> =>
                /\ classes[v] = IF C18_Accepted(c) THEN "accepted"
                                ELSE IF C18_Review(c) THEN "review"
                                ELSE "rejected"
                /\ v \in DOMAIN updates <=> C18_Accepted(c)
                /\ ~C18_Accepted(c) => places[v].lat = Null
                /\ C18_Accepted(c) =>
                      /\ places[v].lat = c[TopIndex(c)].coords[1]
                      /\ places[v].lon = c[TopIndex(c)].coords[2]
                      /\ places[v].external_id =
                            <<"wikidata", Qid(TopIndex(c))>>

\* the boundary: top score 80 with coordinates, runner-up 60, accepted
C18_Witness ==
    /\ gphase = "3"
    /\ \E v \in DOMAIN search_results :
          LET c == search_results[v] IN
          /\ Len(c) = 2
          /\ c[2].score = 80
          /\ c[1].score = 60
          /\ c[2].coords[1] # Null
          /\ classes[v] = "accepted"
          /\ places[v].lat # Null

----------------------------------------------------------------------------
(* Date claims *)

Present(val) == val.isstr /\ val.chars # <<>>

\* C20: a row written by Phase 4 has date_earliest <= date_latest when both
\* are non-null; when the timespan has only one of begin_of_the_begin and
\* end_of_the_end, both columns hold the year of that one
C20_DatesOrdered ==
    dpc = "row" =>
        /\ (date_earliest # Null /\ date_latest # Null) =>
              date_earliest[1] <= date_latest[1]
        /\ \A one \in {timespan.begin_of_the_begin, timespan.end_of_the_end} :
              LET other == IF one = timespan.begin_of_the_begin
                           THEN timespan.end_of_the_end
                           ELSE timespan.begin_of_the_begin IN
              (Present(one) /\ ~Present(other) /\ YearOf(one) # Null) =>
                  /\ date_earliest = YearOf(one)
                  /\ date_latest = YearOf(one)

----------------------------------------------------------------------------
(* Phase 4 error handling claims *)

C21_MalformedStep ==
    \A o \in DOMAIN futures :
        (/\ pc = "p4_wait" /\ pc' = "p4_wait"
         /\ futures[o].st = "done"
         /\ futures[o].outcome = "malformed"
         /\ o \in DOMAIN futures' /\ futures'[o].st = "handled")
        => /\ db'.artworks[o].tier2_done = 1
           /\ db'.artworks[o].tier2 = "NULL"

\* C21: a response that was received but is not parsable JSON-LD is handled
\* as an empty valid response: the artwork is marked tier2_done = 1 with
\* null Tier 2 fields (and so is not fetched again)
C21_MalformedMarkedDone == [][C21_MalformedStep]_vars

----------------------------------------------------------------------------
(* Embedding resume claims *)

C22_ResumeStep ==
    (epc \in EmbRest /\ epc' = "loop" /\ emb_resume') =>
        LET in_regular == DOMAIN edisk.artwork_embeddings
            in_vec == DOMAIN edisk.vec_artworks IN
        /\ existing_ids' = in_regular \cap in_vec
        /\ dangling' = (in_regular \cup in_vec) \ (in_regular \cap in_vec)

\* C22: a --resume run skips exactly the ids present in both
\* artwork_embeddings and vec_artworks, and reports as dangling every id
\* present in only one of the two tables, whichever one
C22_DanglingEitherTable == [][C22_ResumeStep]_vars

----------------------------------------------------------------------------
(* Composite text claims *)

Tier2Empty(row) ==
    /\ row.title_all_text = ""
    /\ row.narrative_text = ""
    /\ row.inscription_text = ""
    /\ row.description_text = ""

AllFieldsEmpty(row) ==
    Tier2Empty(row) /\ row.creator_label = "" /\ row.subjects = ""

EmbeddedIds ==
    DOMAIN edb.artwork_embeddings \cup DOMAIN edb.vec_artworks
        \cup DOMAIN edisk.artwork_embeddings \cup DOMAIN edisk.vec_artworks
        \cup {batch_rows[j].art_id : j \in DOMAIN batch_rows}

----------------------------------------------------------------------------
(* Geocoder: --dry-run and validation *)

C24_Step ==
    (/\ gphase = "none"
     /\ gphase' # "none"
     /\ (dry_run' \/ gphase' = "4"))
        => /\ places' = places
           /\ db' = db
           /\ disk' = disk

\* C24: a phase called with --dry-run (--apply-reviewed included) and the
\* validation phase leave the store unchanged
C24_DryRunWritesNothing == [][C24_Step]_vars

\* a dry run of the Wikidata phase on a store that has places for it to
\* geocode
C24_Witness ==
    /\ gphase = "1b"
    /\ dry_run
    /\ get_ungeocoded(places, "wikidata") # {}

----------------------------------------------------------------------------
(* Transaction boundaries *)

Phase1Parts == {"artwork", "m:subject", "m:creator"}
Phase4Parts == {"tier2", "tier2_done", "m:production_role",
                "m:attribution_qualifier"}

Union(seq) == UNION {seq[i] : i \in DOMAIN seq}

\* C25: in every committed state, also after a kill, an artwork has all
\* rows Phase 1 writes for its record or none of them, and all of what
\* Phase 4 writes for its result (the Tier 2 fields, tier2_done and the
\* role and qualifier mappings; tier2_done alone for a 404) or none of it
C25_ArtworkCommittedWhole ==
    \A o \in DOMAIN rdisk :
        /\ rdisk[o] \cap Phase1Parts \in {{}, Union(Phase1Statements(o))}
        /\ rdisk[o] \cap Phase4Parts
              \in {{}, {"tier2_done"}, Union(Phase4Statements(o, "payload"))}

\* the process was killed between two statements of an artwork that writes
\* several rows, while rows of other artworks were committed
C25_Witness ==
    /\ rpc = "crashed"
    /\ rcur # <<>>
    /\ rart \in DOMAIN rdisk
    /\ "tier2" \notin rdisk[rart]
    /\ Len(rcur) < Len(Phase4Statements(rart, "payload"))
    /\ \E o \in DOMAIN rdisk :
          rdisk[o] = Union(Phase1Statements(o))
                        \cup Union(Phase4Statements(o, "payload"))

----------------------------------------------------------------------------
(* Checkpoint replacement *)

\* C26: whenever the harvest is not running, also after it was killed, the
\* checkpoint file is absent or holds a whole checkpoint, never an empty or
\* partial one
C26_CheckpointNeverPartial == p1pc = "idle" => ckpt # Truncated

----------------------------------------------------------------------------
(* Wikidata search: shared backoff *)

C27_Step ==
    \A w \in Workers :
        (get_pc[w] # "get" /\ get_pc'[w] = "get") => backoff_left = 0

\* C27: while the shared backoff deadline set by a 429 has not passed, no
\* worker sends a search request
C27_NoRequestBeforeDeadline == [][C27_Step]_vars

----------------------------------------------------------------------------
(* Wikidata search: the synchronous fallback *)

\* C28: for the same name and the same answers of Wikidata the synchronous
\* fallback returns the candidate list the concurrent search returns
C28_SyncSameAsAsync ==
    searched = {"async", "sync"} => results_sync = results_async

----------------------------------------------------------------------------
(* parse_nt_file: external identifier *)

HasSite(eqs, site) == \E i \in DOMAIN eqs : eqs[i][1] = site

\* C29: the external id is an Iconclass URI when the file has one, else a
\* Wikidata URI when it has one, else the first equivalent, whatever the
\* order of the equivalents in the file
C29_IconclassThenWikidata ==
    external_id # NotParsed =>
        IF HasSite(equivalents, "iconclass.org")
        THEN external_id[1] = "iconclass.org"
        ELSE IF HasSite(equivalents, "wikidata.org")
        THEN external_id[1] = "wikidata.org"
        ELSE IF equivalents # <<>> THEN external_id = equivalents[1]
        ELSE external_id = <<>>

----------------------------------------------------------------------------
(* Phase 4: role and qualifier references *)

C30_Step ==
    (pc = "p4_wait" /\ pc' \in {"p4_submit", "p4_end"}) =>
        \A o \in DOMAIN futures :
            (/\ futures[o].outcome = "json"
             /\ disk'.artworks[o].tier2_done = 1
             /\ disk'.artworks[o].tier2 = "foo")
                => Cardinality(RoleEdges(disk', o)) = 2

\* C30: the commit of a Phase 4 batch that marks an artwork done after its
\* payload was fetched holds a mapping edge for each production_role and
\* attribution_qualifier reference of the payload, under either encoding
\* of the mappings table
C30_EveryReferenceStored == [][C30_Step]_vars

====
